---- MODULE Spec2Model ----
(***************************************************************************)
(* A model of the two applications of the repository: the habit tracker    *)
(* (DashboardPage, HabitList, StatsCards, DeleteHabitDialog over the       *)
(* habits / habit_logs tables) and the personal finance dashboard          *)
(* (Dashboard over the transactions table).                                *)
(*                                                                         *)
(* Calendar dates ('yyyy-MM-dd' strings in the code) are day numbers; an   *)
(* instant is a local calendar day, a local hour of the day and the UTC    *)
(* offset of the browser, in hours (local time = UTC + offset).            *)
(***************************************************************************)
EXTENDS Integers, Sequences, FiniteSets, Bags, TLC

VARIABLES
    now,          \* the browser's clock: [day, hour, offset]
    habits,       \* DashboardPage state `habits`, the prop of StatsCards / HabitList
    stats,        \* StatsCards state `stats`
    statsDone,    \* whether the useEffect that runs calculateStats has run
    logRows,      \* the rows of table habit_logs
    streaks,      \* HabitList state `streaks`
    streaksDone,  \* whether a run of calculateStreaks has reached its setStreaks
    transactions, \* finance Dashboard state `transactions`
    totals,       \* the totals of the last render of the finance Dashboard
    totalsDone,   \* whether the Dashboard has rendered its current `transactions`
    session,      \* the browser's auth session: the signed-in user, or NoUser
    txRows,       \* the rows of table transactions
    nextTxId,     \* the id the next inserted transaction gets (gen_random_uuid)
    loading,      \* Dashboard state `loading`
    handlers,     \* the bag of async handlers in flight, each at an await
    clicks,       \* the number of user actions so far
    settled,      \* the ids whose handleDelete has settled (finance) or succeeded (habits)
    habitRows,    \* the rows of table habits
    nextLogId,    \* the id the next inserted habit_logs row gets (gen_random_uuid)
    todayLogs,    \* HabitList state `todayLogs`
    toast,        \* the toast shown last
    route,        \* the page the browser shows: "dashboard" or "login"
    showAddForm,  \* finance Dashboard state `showAddForm`
    showCreateDialog, \* DashboardPage state `showCreateDialog`
    editingHabit, \* HabitList state `editingHabit`: a habit id, or 0 for null
    deletingHabit, \* HabitList state `deletingHabit`: a habit id, or 0 for null
    categories,   \* CreateHabitDialog state `categories`: whether the list is loaded
    editCategories, \* EditHabitDialog state `categories`: whether the list is loaded
    formCategory, \* CreateHabitDialog formData.category: whether one is chosen
    createLoading, \* CreateHabitDialog state `loading`
    editLoading,  \* EditHabitDialog state `loading`
    deleteLoading, \* DeleteHabitDialog state `loading`
    isSignUp,     \* LoginPage state `isSignUp`
    error,        \* LoginPage state `error`, '' when there is none
    accounts,     \* the users the authentication service has an account for
    authLog       \* the answers the handler of the login page has had so far

statsVars == <<stats, statsDone>>
streakVars == <<logRows, streaks, streaksDone>>
dashVars == <<habitRows, nextLogId, todayLogs, toast, route>>
dialogVars == <<showCreateDialog, editingHabit, deletingHabit, categories, editCategories,
                formCategory, createLoading, editLoading, deleteLoading>>
loginVars == <<isSignUp, error, accounts, authLog>>
habitVars == <<now, habits, stats, statsDone, logRows, streaks, streaksDone, dashVars,
               dialogVars, loginVars>>
totalsVars == <<transactions, totals, totalsDone>>
financeVars == <<transactions, totals, totalsDone, txRows, nextTxId, loading, settled,
                 showAddForm>>
asyncVars == <<session, handlers, clicks>>
vars == <<now, habits, stats, statsDone, logRows, streaks, streaksDone,
          transactions, totals, totalsDone, session, txRows, nextTxId, loading,
          handlers, clicks, settled, habitRows, nextLogId, todayLogs, toast, route,
          showAddForm, dialogVars, loginVars>>

----------------------------------------------------------------------------
(* Bounds of the model *)

\* Today is day MaxDay: log dates range over 0..MaxDay, MaxDay + 1 days of history.
MaxDay == 31
\* At most MaxHabits habits in a list handed to calculateStats.
MaxHabits == 2
\* At most MaxLogs log entries in a sparse history (see SparseHistories).
MaxLogs == 3
\* The stored logs of a per-habit streak computation lie in the last StreakSpan + 1 days.
StreakSpan == 3
\* The browser's UTC offset, in hours, lies in -MaxOffset..MaxOffset.
MaxOffset == 9
\* At most MaxTx transactions in a list handed to the totals.
MaxTx == 3
\* At most MaxClicks user actions (submits, clicks) in a run of an application.
MaxClicks == 2

(* Program constants *)

\* stats-cards.tsx:45   for (let i = 0; i < 30; i++)
StreakWindow == 30
\* stats-cards.tsx:62   for (let i = 0; i < 7; i++)
WeekWindow == 7
\* HabitList.calculateStreaks   (1000 * 60 * 60 * 24): the model counts time in hours
HoursPerDay == 24

Today == MaxDay

Min(a, b) == IF a < b THEN a ELSE b

----------------------------------------------------------------------------
(* date-fns and Date, as the code uses them *)

\* format(d, 'yyyy-MM-dd'): the local calendar day of an instant.
FormatDate(instant) == instant.day

\* subDays(d, i): the same local time of day, i calendar days earlier.
SubDays(instant, i) == [instant EXCEPT !.day = instant.day - i]

\* Math.round(n / d) for n >= 0, d > 0: the nearest integer, halves up.
MathRound(n, d) == (2 * n + d) \div (2 * d)

----------------------------------------------------------------------------
(* StatsCards.calculateStats *)

\* habit.habit_logs.some(log => log.date === date && log.completed)
HasCompletedLog(habit, date) ==
    \E log \in habit.habit_logs : log.date = date /\ log.completed

\* A variant of CountCompleted that counts completed log entries, of any date,
\* instead of the habits that have one on `date`.
CountCompleted_AllLogs(hs, date) ==
    Cardinality({p \in (1..Len(hs)) \X UNION {hs[i].habit_logs : i \in 1..Len(hs)} :
                    p[2] \in hs[p[1]].habit_logs /\ p[2].completed})

\* habits.filter(habit => habit.habit_logs.some(...)).length
CountCompleted(hs, date) ==
    Cardinality({i \in 1..Len(hs) : HasCompletedLog(hs[i], date)})

\* habits.some(habit => habit.habit_logs.some(...))
AnyCompleted(hs, date) ==
    \E i \in 1..Len(hs) : HasCompletedLog(hs[i], date)

\* A variant of StreakLoop that skips a day without a completion instead of
\* stopping at it (the else branch `continue`s instead of `break`ing).
RECURSIVE StreakLoop_NoBreak(_, _, _)
StreakLoop_NoBreak(hs, clock, i) ==
    IF i < StreakWindow
    THEN (IF AnyCompleted(hs, FormatDate(SubDays(clock, i))) THEN 1 ELSE 0)
         + StreakLoop_NoBreak(hs, clock, i + 1)
    ELSE 0

\* A variant of the streak loop without the 30-day limit of its for statement:
\* it walks back until the first day without a completion.
RECURSIVE StreakLoop_NoCap(_, _, _)
StreakLoop_NoCap(hs, clock, i) ==
    IF i <= MaxDay + 1 /\ AnyCompleted(hs, FormatDate(SubDays(clock, i)))
    THEN StreakLoop_NoCap(hs, clock, i + 1)
    ELSE i

\* The streak loop: i is the loop counter, which is also streakDays.length.
RECURSIVE StreakLoop(_, _, _)
StreakLoop(hs, clock, i) ==
    IF i < StreakWindow /\ AnyCompleted(hs, FormatDate(SubDays(clock, i)))
    THEN StreakLoop(hs, clock, i + 1)
    ELSE i

\* A variant of WeekLoop whose loop runs one day too far (i <= 7).
RECURSIVE WeekLoop_Inclusive(_, _, _, _, _)
WeekLoop_Inclusive(hs, clock, i, totalCompleted, totalPossible) ==
    IF i <= WeekWindow
    THEN WeekLoop_Inclusive(hs, clock, i + 1,
                  totalCompleted + CountCompleted(hs, FormatDate(SubDays(clock, i))),
                  totalPossible + Len(hs))
    ELSE <<totalCompleted, totalPossible>>

\* The weekly loop: returns <<totalCompleted, totalPossible>>.
RECURSIVE WeekLoop(_, _, _, _, _)
WeekLoop(hs, clock, i, totalCompleted, totalPossible) ==
    IF i < WeekWindow
    THEN WeekLoop(hs, clock, i + 1,
                  totalCompleted + CountCompleted(hs, FormatDate(SubDays(clock, i))),
                  totalPossible + Len(hs))
    ELSE <<totalCompleted, totalPossible>>

\* A variant of WeeklyCompletion that divides by the number of habits instead of
\* by totalPossible (the habits times the seven days).
WeeklyCompletion_PerHabit(hs, clock) ==
    LET t == WeekLoop(hs, clock, 0, 0, 0)
    IN  IF t[2] > 0 THEN MathRound(t[1] * 100, Len(hs)) ELSE 0

WeeklyCompletion(hs, clock) ==
    LET t == WeekLoop(hs, clock, 0, 0, 0)
    IN  IF t[2] > 0 THEN MathRound(t[1] * 100, t[2]) ELSE 0

CalculateStats(hs, clock) ==
    [ totalHabits      |-> Len(hs),
      completedToday   |-> CountCompleted(hs, FormatDate(clock)),
      currentStreak    |-> StreakLoop(hs, clock, 0),
      weeklyCompletion |-> WeeklyCompletion(hs, clock) ]

\* useState({ totalHabits: 0, completedToday: 0, currentStreak: 0, weeklyCompletion: 0 })
InitialStats ==
    [ totalHabits |-> 0, completedToday |-> 0, currentStreak |-> 0, weeklyCompletion |-> 0 ]

----------------------------------------------------------------------------
(* Finance Dashboard: the totals computed at each render.                     *)
(* Amounts are whole numbers here; the code adds JavaScript numbers.          *)

\* array.reduce((sum, t) => sum + t.amount, 0)
RECURSIVE ReduceSum(_, _, _)
ReduceSum(seq, k, sum) ==
    IF k > Len(seq) THEN sum ELSE ReduceSum(seq, k + 1, sum + seq[k].amount)

IsIncome(t) == t.type = "income"
IsExpense(t) == t.type = "expense"

\* A variant of TotalIncome without the filter on the type.
TotalIncome_Unfiltered(txs) == ReduceSum(txs, 1, 0)

\* transactions.filter(t => t.type === 'income').reduce(...)
TotalIncome(txs) == ReduceSum(SelectSeq(txs, IsIncome), 1, 0)

\* transactions.filter(t => t.type === 'expense').reduce(...)
TotalExpenses(txs) == ReduceSum(SelectSeq(txs, IsExpense), 1, 0)

\* const balance = totalIncome - totalExpenses
Balance(txs) == TotalIncome(txs) - TotalExpenses(txs)

RenderTotals(txs) ==
    [ totalIncome |-> TotalIncome(txs),
      totalExpenses |-> TotalExpenses(txs),
      balance |-> Balance(txs) ]

----------------------------------------------------------------------------
(* The parts of the state a specification leaves alone *)

\* The signed-in user of the browser session, and the value of `user` without one.
Me == "u1"
NoUser == "none"
\* Another user of the same service, with rows of their own in its tables.
Other == "u2"

IdleFinance ==
    /\ transactions = <<>>
    /\ totals = RenderTotals(<<>>)
    /\ totalsDone = TRUE
    /\ txRows = {}
    /\ nextTxId = 1
    /\ loading = FALSE
    /\ settled = {}
    /\ showAddForm = FALSE

IdleAsync ==
    /\ session = Me
    /\ handlers = EmptyBag
    /\ clicks = 0

IdleDialogs ==
    /\ showCreateDialog = FALSE
    /\ editingHabit = 0
    /\ deletingHabit = 0
    /\ categories = FALSE
    /\ editCategories = FALSE
    /\ formCategory = FALSE
    /\ createLoading = FALSE
    /\ editLoading = FALSE
    /\ deleteLoading = FALSE

IdleLogin ==
    /\ isSignUp = FALSE
    /\ error = ""
    /\ accounts = {}
    /\ authLog = <<>>

IdleDash ==
    /\ IdleDialogs
    /\ IdleLogin
    /\ habitRows = {}
    /\ nextLogId = 1
    /\ todayLogs = <<>>
    /\ toast = "none"
    /\ route = "dashboard"

IdleHabits ==
    /\ IdleDash
    /\ habits = <<>>
    /\ stats = InitialStats
    /\ statsDone = FALSE
    /\ logRows = {}
    /\ streaks = <<>>
    /\ streaksDone = FALSE

----------------------------------------------------------------------------
(* The inputs of calculateStats: lists of habits with their nested logs.      *)
(* habit_logs holds at most one row per (habit, date): UNIQUE(habit_id,       *)
(* user_id, date) in schema.sql. A log may have completed = FALSE (the column *)
(* is a plain BOOLEAN), which the code must not count.                        *)

\* The days of the weekly window and the day just before it.
RecentDates == (Today - WeekWindow)..Today

\* A habit that was completed on each of the last r days, today included.
RunHistory(r) == {[date |-> d, completed |-> TRUE] : d \in (Today - r + 1)..Today}

\* The subsets of U with at most k elements.
RECURSIVE SubsetsUpTo(_, _)
SubsetsUpTo(U, k) ==
    IF k = 0 THEN {{}}
    ELSE LET S == SubsetsUpTo(U, k - 1)
         IN  S \cup {s \cup {x} : s \in S, x \in U}

\* Log entries <<habit, date, completed>> scattered over the recent dates.
SparseEntries(n) == (1..n) \X RecentDates \X BOOLEAN

OnePerDate(E) == \A e1, e2 \in E : (e1[1] = e2[1] /\ e1[2] = e2[2]) => e1 = e2

HabitsOfEntries(n, E) ==
    [i \in 1..n |->
        [id |-> i,
         habit_logs |-> {[date |-> e[2], completed |-> e[3]] : e \in {x \in E : x[1] = i}}]]

\* Every habit a run of consecutive completed days ending today.
RunHistories(hs) ==
    \E n \in 0..MaxHabits : \E r \in [1..n -> 0..(MaxDay + 1)] :
        hs = [i \in 1..n |-> [id |-> i, habit_logs |-> RunHistory(r[i])]]

\* At most MaxLogs logs, anywhere in the recent dates, completed or not.
SparseHistories(hs) ==
    \E n \in 0..MaxHabits : \E E \in SubsetsUpTo(SparseEntries(n), MaxLogs) :
        /\ OnePerDate(E)
        /\ hs = HabitsOfEntries(n, E)

\* The clock of a stats computation: the first or the last hour of today.
StatsClocks == {[day |-> Today, hour |-> h, offset |-> 0] : h \in {0, 23}}

InitStats ==
    /\ now \in StatsClocks
    /\ RunHistories(habits) \/ SparseHistories(habits)
    /\ stats = InitialStats
    /\ statsDone = FALSE
    /\ logRows = {}
    /\ streaks = <<>>
    /\ streaksDone = FALSE
    /\ IdleDash
    /\ IdleFinance
    /\ IdleAsync

\* useEffect(() => { calculateStats() }, [habits]): calculateStats has no await,
\* so it runs to its setStats in one step.
RunCalculateStats ==
    /\ ~statsDone
    /\ stats' = CalculateStats(habits, now)
    /\ statsDone' = TRUE
    /\ UNCHANGED <<now, habits, streakVars, dashVars, dialogVars, loginVars, financeVars,
                   asyncVars>>

NextStats == RunCalculateStats

SpecStats == InitStats /\ [][NextStats]_vars

----------------------------------------------------------------------------
(* Claims about calculateStats, checked under SpecStats *)

\* The dates on which some habit of the list has a completed log.
ActiveDates(hs) ==
    {log.date : log \in {l \in UNION {hs[i].habit_logs : i \in 1..Len(hs)} : l.completed}}

\* The number of consecutive days of D, from today backward, up to the first day not in D.
ConsecutiveDays(D) ==
    CHOOSE k \in 0..(Today + 1) :
        /\ \A j \in 0..(k - 1) : (Today - j) \in D
        /\ (Today - k) \notin D

\* C1 as stated: currentStreak is the number of consecutive calendar days, from
\* today backward, on which some habit has a completed log, whatever that number is.
C1_StreakIsConsecutiveDays ==
    statsDone => stats.currentStreak = ConsecutiveDays(ActiveDates(habits))

\* C1, amended: currentStreak is that number of consecutive days capped at the 30
\* days the loop walks; it is 3 for completions on today, today-1, today-2 and none
\* on today-3, and 0 when no habit has a completed log today.
C1_StreakIsConsecutiveDaysUpTo30 ==
    statsDone =>
        LET D == ActiveDates(habits)
        IN  /\ stats.currentStreak = Min(StreakWindow, ConsecutiveDays(D))
            /\ ({Today, Today - 1, Today - 2} \subseteq D /\ (Today - 3) \notin D
                    => stats.currentStreak = 3)
            /\ (Today \notin D => stats.currentStreak = 0)

C1_Witness ==
    /\ statsDone
    /\ {Today, Today - 1, Today - 2} \subseteq ActiveDates(habits)
    /\ (Today - 3) \notin ActiveDates(habits)
    /\ stats.currentStreak = 3

\* C3: the weekly completion percentage is an integer in 0..100, and it is 0 when
\* the habit list is empty.
C3_WeeklyInRange ==
    statsDone =>
        /\ stats.weeklyCompletion \in 0..100
        /\ (Len(habits) = 0 => stats.weeklyCompletion = 0)

C3_Witness ==
    /\ statsDone
    /\ Len(habits) = MaxHabits
    /\ stats.weeklyCompletion = 100

\* The (habit, day) pairs of the 7 days today-6..today with a completed log.
WeekPairs(hs) ==
    {p \in (1..Len(hs)) \X ((Today - 6)..Today) :
        \E log \in hs[p[1]].habit_logs : log.date = p[2] /\ log.completed = TRUE}

\* The integer nearest to n / d, halves up, for n >= 0 and d > 0.
Nearest(n, d) == CHOOSE q \in 0..(n + 1) : 2 * q * d - d <= 2 * n /\ 2 * n < 2 * q * d + d

\* C4: with N > 0 habits the weekly completion rate is round(100 * S / (N * 7)),
\* S the number of (habit, day) pairs of the last 7 days with a completed log;
\* with no habit (where the quotient is undefined) it is 0.
C4_WeeklyIsRoundedRate ==
    statsDone =>
        LET N == Len(habits)
            S == Cardinality(WeekPairs(habits))
        IN  IF N > 0
            THEN stats.weeklyCompletion = Nearest(100 * S, N * 7)
            ELSE stats.weeklyCompletion = 0

C4_Witness ==
    /\ statsDone
    /\ Len(habits) = 2
    /\ Cardinality(WeekPairs(habits)) = 2
    /\ \E i \in 1..Len(habits) : \E log \in habits[i].habit_logs : ~log.completed
    /\ stats.weeklyCompletion = 14

\* C5: completedToday, the number of habits with a completed log dated today, is
\* at most totalHabits, the length of the habit list.
C5_CompletedTodayAtMostTotal ==
    statsDone =>
        /\ stats.totalHabits = Len(habits)
        /\ stats.completedToday =
              Cardinality({i \in 1..Len(habits) :
                  [date |-> Today, completed |-> TRUE] \in habits[i].habit_logs})
        /\ stats.completedToday <= stats.totalHabits

C5_Witness ==
    /\ statsDone
    /\ stats.totalHabits = MaxHabits
    /\ stats.completedToday = MaxHabits

----------------------------------------------------------------------------
(* HabitList.calculateStreaks *)

\* new Date().getTime(), in hours since the epoch: local time = UTC + offset.
GetTime(clock) == clock.day * HoursPerDay + clock.hour - clock.offset

\* new Date('yyyy-MM-dd').getTime(): a date-only string is read as UTC midnight.
ParseDate(date) == date * HoursPerDay

\* The rows of S by date, latest first (S holds one row per date).
RECURSIVE OrderByDateDesc(_)
OrderByDateDesc(S) ==
    IF S = {} THEN <<>>
    ELSE LET top == CHOOSE r \in S : \A q \in S : q.date <= r.date
         IN  <<top>> \o OrderByDateDesc(S \ {top})

\* from('habit_logs').select('date, completed').eq('habit_id', id).eq('completed', true)
\*   .order('date', { ascending: false }), under the policy auth.uid() = user_id
SelectCompletedLogs(rows, uid, habitId) ==
    OrderByDateDesc({r \in rows : r.user_id = uid /\ r.habit_id = habitId /\ r.completed})

\* for (const log of logs) { ... if (diffDays === streak) streak++ else break }
RECURSIVE HabitStreakLoop(_, _, _, _)
HabitStreakLoop(logs, clock, k, streak) ==
    IF k > Len(logs) THEN streak
    ELSE LET logDate  == ParseDate(logs[k].date)
             diffDays == (GetTime(clock) - logDate) \div HoursPerDay
         IN  IF diffDays = streak
             THEN HabitStreakLoop(logs, clock, k + 1, streak + 1)
             ELSE streak

\* The streaksMap of one run of calculateStreaks over the habits of the list.
StreaksMap(hs, rows, uid, clock) ==
    [id \in {hs[i].id : i \in 1..Len(hs)} |->
        HabitStreakLoop(SelectCompletedLogs(rows, uid, id), clock, 1, 0)]

\* The stored logs of habit 1: at most one row per date of the last days.
StreakDates == (Today - StreakSpan)..Today

LogRowsOf(f) ==
    {[id |-> d, habit_id |-> 1, user_id |-> Me, date |-> d, completed |-> (f[d] = "done")] :
        d \in {x \in StreakDates : f[x] # "none"}}

Clocks == [day : {Today}, hour : 0..(HoursPerDay - 1), offset : (-MaxOffset)..MaxOffset]

InitStreak ==
    /\ now \in Clocks
    /\ habits = <<[id |-> 1, habit_logs |-> {}]>>
    /\ \E f \in [StreakDates -> {"none", "done", "undone"}] : logRows = LogRowsOf(f)
    /\ streaks = <<>>
    /\ streaksDone = FALSE
    /\ stats = InitialStats
    /\ statsDone = FALSE
    /\ IdleDash
    /\ IdleFinance
    /\ IdleAsync

\* One run of calculateStreaks with the user signed in and no write in between.
RunCalculateStreaks ==
    /\ ~streaksDone
    /\ streaks' = StreaksMap(habits, logRows, Me, now)
    /\ streaksDone' = TRUE
    /\ UNCHANGED <<now, habits, logRows, statsVars, dashVars, dialogVars, loginVars,
                   financeVars,
                   asyncVars>>

NextStreak == RunCalculateStreaks

SpecStreak == InitStreak /\ [][NextStreak]_vars

\* The dates of the completed logs stored for a habit.
CompletedDates(habitId) ==
    {r.date : r \in {q \in logRows : q.habit_id = habitId /\ q.completed}}

\* C2: a habit whose completed logs fall on exactly the k most recent days ending
\* today has streak k, at whatever hour and UTC offset calculateStreaks runs.
C2_StreakOfRecentRun ==
    streaksDone =>
        \A k \in 1..(StreakSpan + 1) :
            CompletedDates(1) = (Today - k + 1)..Today => streaks[1] = k

\* The case of the spec's example, at 03:00 local time in a UTC+8 browser.
C2_Witness ==
    /\ streaksDone
    /\ CompletedDates(1) = {Today, Today - 1}
    /\ now.hour = 3 /\ now.offset = 8
    /\ streaks[1] = 0

----------------------------------------------------------------------------
(* Finance totals on their own: any list of transactions, then one render *)

\* The amounts a user can submit (<input type="number" step="0.01" required>)
\* and the two values of the type <select>.
Amounts == {-5, 0, 10, 40, 100}
Types == {"income", "expense"}
\* The amounts submitted in the runs of the whole dashboard.
FormAmounts == {-5, 10}

\* A clock for the finance dashboard, which reads only the date.
Noon == [day |-> Today, hour |-> 12, offset |-> 0]

\* new Date().toISOString().split('T')[0]: the UTC calendar day.
IsoDate(clock) == GetTime(clock) \div HoursPerDay

InitTotals ==
    /\ now = Noon
    /\ \E n \in 0..MaxTx : \E a \in [1..n -> Amounts] : \E t \in [1..n -> Types] :
          transactions = [i \in 1..n |->
              [id |-> i, user_id |-> Me, amount |-> a[i], type |-> t[i], date |-> IsoDate(Noon)]]
    /\ totals = RenderTotals(<<>>)
    /\ totalsDone = FALSE
    /\ txRows = {} /\ nextTxId = 1 /\ loading = FALSE /\ settled = {}
    /\ showAddForm = FALSE
    /\ IdleAsync
    /\ IdleHabits

\* A render of Dashboard after setTransactions: lines 66-74 run again.
RenderDashboard ==
    /\ ~totalsDone
    /\ totals' = RenderTotals(transactions)
    /\ totalsDone' = TRUE
    /\ UNCHANGED <<transactions, txRows, nextTxId, loading, settled, showAddForm,
                   asyncVars, habitVars>>

NextTotals == RenderDashboard

SpecTotals == InitTotals /\ [][NextTotals]_vars

\* The sum of the amounts of the transactions of `txs` at the positions I.
RECURSIVE SumAt(_, _)
SumAt(txs, I) ==
    IF I = {} THEN 0
    ELSE LET i == CHOOSE x \in I : TRUE IN txs[i].amount + SumAt(txs, I \ {i})

ExampleList ==
    [i \in 1..3 |-> [id |-> i, user_id |-> Me, amount |-> <<100, 40, 10>>[i],
                     type |-> <<"income", "expense", "expense">>[i], date |-> IsoDate(Noon)]]

\* C6: totalIncome is the sum of the amounts of the income transactions,
\* totalExpenses that of the expense transactions, balance their difference;
\* [{100, income}, {40, expense}, {10, expense}] gives 100, 50 and 50.
C6_Totals ==
    totalsDone =>
        LET I == {i \in 1..Len(transactions) : transactions[i].type = "income"}
            E == {i \in 1..Len(transactions) : transactions[i].type = "expense"}
        IN  /\ totals.totalIncome = SumAt(transactions, I)
            /\ totals.totalExpenses = SumAt(transactions, E)
            /\ totals.balance = totals.totalIncome - totals.totalExpenses
            /\ (transactions = ExampleList =>
                   totals = [totalIncome |-> 100, totalExpenses |-> 50, balance |-> 50])

C6_Witness ==
    /\ totalsDone
    /\ transactions = ExampleList
    /\ totals = [totalIncome |-> 100, totalExpenses |-> 50, balance |-> 50]

----------------------------------------------------------------------------
(* Finance Dashboard: the handlers and the storage service.                   *)
(* A handler in flight is a record: its kind, the await it is suspended at    *)
(* (pc), the user it read, its argument, and the response once the service    *)
(* has answered (data, error). `after` records, for a loadTransactions, the   *)
(* ids whose handleDelete had settled when it started.                        *)

NoArg == [id |-> 0, amount |-> 0, type |-> "none"]

Handler(kind, pc, arg, after) ==
    [kind |-> kind, pc |-> pc, user |-> NoUser, identified |-> FALSE, arg |-> arg,
     data |-> <<>>, error |-> FALSE, after |-> after]

\* The handlers in flight with h replaced by h2, with h gone, with h2 started.
Becomes(h, h2) == (handlers (-) SetToBag({h})) (+) SetToBag({h2})
Returns(h) == handlers (-) SetToBag({h})
Starts(h2) == handlers (+) SetToBag({h2})

\* All the orders in which the rows of S can be listed.
RECURSIVE Orderings(_)
Orderings(S) ==
    IF S = {} THEN {<<>>}
    ELSE UNION {{<<r>> \o rest : rest \in Orderings(S \ {r})} : r \in S}

\* The orders of S by date, latest first; rows of one date come in any order.
OrderedByDateDesc(S) ==
    {o \in Orderings(S) : \A i, j \in 1..Len(o) : i < j => o[i].date >= o[j].date}

\* The policies "Users can view / create / delete own transactions":
\* auth.uid() = user_id, auth.uid() being the user whose token the request carries.
TxVisible(r, uid) == uid # NoUser /\ r.user_id = uid

\* A variant of SelectTransactions that returns the rows of every user.
SelectTransactions_NoFilter(uid) == OrderedByDateDesc(txRows)

\* from('transactions').select('*').eq('user_id', user.id).order('date', { ascending: false })
SelectTransactions(uid) ==
    OrderedByDateDesc({r \in txRows : TxVisible(r, uid) /\ r.user_id = uid})

InitFinance ==
    /\ now = Noon
    /\ transactions = <<>>
    /\ totals = RenderTotals(<<>>)
    /\ totalsDone = TRUE
    \* the other user has a transaction stored
    /\ txRows = {[id |-> 1, user_id |-> Other, amount |-> 40, type |-> "expense",
                  date |-> IsoDate(Noon)]}
    /\ nextTxId = 2
    /\ loading = TRUE
    /\ settled = {}
    /\ showAddForm = FALSE
    /\ session \in {Me, NoUser}
    \* useEffect(() => { loadTransactions() }, [])
    /\ handlers = SetToBag({Handler("loadTransactions", "getUser", NoArg, {})})
    /\ clicks = 0
    /\ IdleHabits

\* The session ends: the token expires, or the user signs out in another tab.
SessionExpires ==
    /\ session # NoUser
    /\ session' = NoUser
    /\ UNCHANGED <<now, habitVars, financeVars, handlers, clicks>>

\* loadTransactions, lines 25-26: getUser answers; without a user it returns.
LoadGetUser(h) ==
    /\ h.kind = "loadTransactions" /\ h.pc = "getUser"
    /\ handlers' = IF session = NoUser
                   THEN Returns(h)
                   ELSE Becomes(h, [h EXCEPT !.pc = "select", !.user = session,
                                             !.identified = TRUE])
    /\ UNCHANGED <<now, habitVars, financeVars, session, clicks>>

\* The service answers the select of lines 28-32.
LoadSelect(h) ==
    /\ h.kind = "loadTransactions" /\ h.pc = "select"
    /\ \E rows \in SelectTransactions(h.user) :
          handlers' = Becomes(h, [h EXCEPT !.pc = "selected", !.data = rows])
    /\ UNCHANGED <<now, habitVars, financeVars, session, clicks>>

\* A request fails (transport or authorization) and changes nothing in the
\* service: the await yields { data: null, error }.
RequestFails(h) ==
    /\ h.pc \in {"select", "insert", "delete"}
    /\ handlers' = Becomes(h, [h EXCEPT !.pc = CASE h.pc = "select" -> "selected"
                                              [] h.pc = "insert" -> "inserted"
                                              [] OTHER -> "deleted",
                                       !.error = TRUE])
    /\ UNCHANGED <<now, habitVars, financeVars, session, clicks>>

\* loadTransactions, lines 34-35: setTransactions(data || []), setLoading(false),
\* and the render that follows.
LoadSettles(h) ==
    /\ h.kind = "loadTransactions" /\ h.pc = "selected"
    /\ transactions' = h.data
    /\ loading' = FALSE
    /\ totals' = RenderTotals(transactions')
    /\ totalsDone' = TRUE
    /\ handlers' = Returns(h)
    /\ UNCHANGED <<now, habitVars, txRows, nextTxId, settled, showAddForm, session, clicks>>

\* The user clicks the button of the header, or Cancel in the form:
\* setShowAddForm(!showAddForm), setShowAddForm(false).
ToggleAddForm ==
    /\ ~loading
    /\ showAddForm' = ~showAddForm
    /\ UNCHANGED <<now, habitVars, totalsVars, txRows, nextTxId, loading, settled,
                   asyncVars>>

\* The user submits the add form: handleAddTransaction starts, line 40.
SubmitAdd(amount, type) ==
    /\ ~loading
    /\ showAddForm
    /\ clicks < MaxClicks
    /\ clicks' = clicks + 1
    /\ handlers' = Starts(Handler("handleAddTransaction", "getUser",
                                  [id |-> 0, amount |-> amount, type |-> type], {}))
    /\ UNCHANGED <<now, habitVars, financeVars, session>>

\* handleAddTransaction, lines 40-41.
AddGetUser(h) ==
    /\ h.kind = "handleAddTransaction" /\ h.pc = "getUser"
    /\ handlers' = IF session = NoUser
                   THEN Returns(h)
                   ELSE Becomes(h, [h EXCEPT !.pc = "insert", !.user = session,
                                             !.identified = TRUE])
    /\ UNCHANGED <<now, habitVars, financeVars, session, clicks>>

\* The service runs the insert of lines 43-52: the policy WITH CHECK
\* (auth.uid() = user_id) rejects a row the user of the request does not own.
AddInsert(h) ==
    /\ h.kind = "handleAddTransaction" /\ h.pc = "insert"
    /\ IF TxVisible([user_id |-> h.user], h.user)
       THEN /\ txRows' = txRows \cup
                  {[id |-> nextTxId, user_id |-> h.user, amount |-> h.arg.amount,
                    type |-> h.arg.type, date |-> IsoDate(now)]}
            /\ nextTxId' = nextTxId + 1
            /\ handlers' = Becomes(h, [h EXCEPT !.pc = "inserted"])
       ELSE /\ UNCHANGED <<txRows, nextTxId>>
            /\ handlers' = Becomes(h, [h EXCEPT !.pc = "inserted", !.error = TRUE])
    /\ UNCHANGED <<now, habitVars, totalsVars, loading, settled, showAddForm, session,
                   clicks>>

\* A variant of AddSettles that closes the form and does not load the list
\* again.
AddSettles_NoReload(h) ==
    /\ h.kind = "handleAddTransaction" /\ h.pc = "inserted"
    /\ handlers' = Returns(h)
    /\ showAddForm' = IF h.error THEN showAddForm ELSE FALSE
    /\ UNCHANGED <<now, habitVars, totalsVars, txRows, nextTxId, loading, settled,
                   session, clicks>>

\* handleAddTransaction, lines 54-58: on success it resets the form, closes it
\* and calls loadTransactions(); with an error it does nothing.
AddSettles(h) ==
    /\ h.kind = "handleAddTransaction" /\ h.pc = "inserted"
    /\ handlers' = IF h.error
                   THEN Returns(h)
                   ELSE Becomes(h, Handler("loadTransactions", "getUser", NoArg, settled))
    /\ showAddForm' = IF h.error THEN showAddForm ELSE FALSE
    /\ UNCHANGED <<now, habitVars, totalsVars, txRows, nextTxId, loading, settled,
                   session, clicks>>

\* The user clicks the delete button of a listed transaction: handleDelete, line 62.
ClickDelete(id) ==
    /\ ~loading
    /\ clicks < MaxClicks
    /\ \E i \in 1..Len(transactions) : transactions[i].id = id
    /\ clicks' = clicks + 1
    \* the request carries the token of the session it is issued under
    /\ handlers' = Starts([Handler("handleDelete", "delete",
                                   [id |-> id, amount |-> 0, type |-> "none"], {})
                               EXCEPT !.user = session])
    /\ UNCHANGED <<now, habitVars, financeVars, session>>

\* The service runs the delete of line 62 under the policy USING
\* (auth.uid() = user_id): rows the user of the request does not own are left alone.
DeleteRuns(h) ==
    /\ h.kind = "handleDelete" /\ h.pc = "delete"
    /\ txRows' = {r \in txRows : ~(r.id = h.arg.id /\ TxVisible(r, h.user))}
    /\ handlers' = Becomes(h, [h EXCEPT !.pc = "deleted"])
    /\ UNCHANGED <<now, habitVars, totalsVars, nextTxId, loading, settled, showAddForm,
                   session, clicks>>

\* handleDelete, lines 62-63: the result of the await is dropped and
\* loadTransactions() is called.
DeleteSettles(h) ==
    /\ h.kind = "handleDelete" /\ h.pc = "deleted"
    /\ settled' = settled \cup {h.arg.id}
    /\ handlers' = Becomes(h, Handler("loadTransactions", "getUser", NoArg, settled'))
    /\ UNCHANGED <<now, habitVars, totalsVars, txRows, nextTxId, loading, showAddForm,
                   session, clicks>>

NextFinance ==
    \/ SessionExpires
    \/ ToggleAddForm
    \/ \E amount \in FormAmounts, type \in Types : SubmitAdd(amount, type)
    \/ \E id \in {r.id : r \in txRows} : ClickDelete(id)
    \/ \E h \in BagToSet(handlers) : LoadGetUser(h)
    \/ \E h \in BagToSet(handlers) : LoadSelect(h)
    \/ \E h \in BagToSet(handlers) : LoadSettles(h)
    \/ \E h \in BagToSet(handlers) : AddGetUser(h)
    \/ \E h \in BagToSet(handlers) : AddInsert(h)
    \/ \E h \in BagToSet(handlers) : AddSettles(h)
    \/ \E h \in BagToSet(handlers) : DeleteRuns(h)
    \/ \E h \in BagToSet(handlers) : DeleteSettles(h)
    \/ \E h \in BagToSet(handlers) : RequestFails(h)

SpecFinance == InitFinance /\ [][NextFinance]_vars

\* C10: once handleDelete has settled for a transaction id, no loadTransactions
\* started afterwards gets a transaction with that id from the service.
C10_DeletedNeverReturned ==
    \A h \in BagToSet(handlers) :
        (h.kind = "loadTransactions" /\ h.pc = "selected") =>
            \A i \in 1..Len(h.data) : h.data[i].id \notin h.after

----------------------------------------------------------------------------
(* The habit tracker: DashboardPage, HabitList and DeleteHabitDialog over the *)
(* tables habits and habit_logs.  A handler in flight is a record             *)
(*   kind, pc    the handler and the await it is at                           *)
(*   user        the user getUser answered, whose token its requests carry    *)
(*   identified  whether the handler has had an answer from getUser           *)
(*   habitId, isCompleted, today, closure                                     *)
(*               what the handler reads from the render it was created in     *)
(*   selectedCategory                                                         *)
(*               whether categories.find(...) of a submit finds the category  *)
(*   writes      the number of writes to habits the handler has issued        *)
(*   data, error the answer of its last request                               *)
(*   after       the habits archived with success before it started           *)

NoError == "none"
RequestFailed == "request failed"
UniqueViolated == "duplicate key value violates unique constraint"

HabitHandler(kind, pc, habitId, closure) ==
    [kind |-> kind, pc |-> pc, user |-> NoUser, identified |-> FALSE, habitId |-> habitId,
     isCompleted |-> FALSE, today |-> FormatDate(now), closure |-> closure,
     selectedCategory |-> FALSE, writes |-> 0,
     data |-> <<>>, error |-> NoError, after |-> settled]

\* The ids of the habits of a list, in the order of the list.
IdsOf(hs) == [i \in 1..Len(hs) |-> hs[i].id]

\* The policies of schema.sql on habits and habit_logs: auth.uid() = user_id.
OwnedBy(r, uid) == uid # NoUser /\ r.user_id = uid

\* The rows of S by id: the order of a select without an order clause.
RECURSIVE OrderById(_)
OrderById(S) ==
    IF S = {} THEN <<>>
    ELSE LET first == CHOOSE r \in S : \A q \in S : r.id <= q.id
         IN  <<first>> \o OrderById(S \ {first})

\* The rows of S by created_at, latest first: ids are given in creation order.
RECURSIVE OrderByCreatedDesc(_)
OrderByCreatedDesc(S) ==
    IF S = {} THEN <<>>
    ELSE LET last == CHOOSE r \in S : \A q \in S : q.id <= r.id
         IN  <<last>> \o OrderByCreatedDesc(S \ {last})

\* The embedded habit_logs(*) of a habit: its rows the policy lets the user see.
NestedLogs(rows, uid, habitId) ==
    {[date |-> r.date, completed |-> r.completed] :
        r \in {q \in rows : OwnedBy(q, uid) /\ q.habit_id = habitId}}

\* A variant of SelectHabits without .eq('is_archived', false).
SelectHabits_WithArchived(hrows, rows, uid) ==
    LET found == OrderByCreatedDesc({r \in hrows : OwnedBy(r, uid) /\ r.user_id = uid})
    IN  [i \in 1..Len(found) |->
            [id |-> found[i].id, name |-> found[i].name,
             habit_logs |-> NestedLogs(rows, uid, found[i].id)]]

\* from('habits').select(`*, habit_logs(*)`).eq('user_id', user.id)
\*   .eq('is_archived', false).order('created_at', { ascending: false })
SelectHabits(hrows, rows, uid) ==
    LET found == OrderByCreatedDesc({r \in hrows : /\ OwnedBy(r, uid)
                                                   /\ r.user_id = uid
                                                   /\ ~r.is_archived})
    IN  [i \in 1..Len(found) |->
            [id |-> found[i].id, name |-> found[i].name,
             habit_logs |-> NestedLogs(rows, uid, found[i].id)]]

\* from('habit_logs').select('*').eq('user_id', user.id).eq('date', today)
SelectTodayLogs(rows, uid, date) ==
    OrderById({r \in rows : OwnedBy(r, uid) /\ r.user_id = uid /\ r.date = date})

\* data?.forEach(log => { logsMap[log.habit_id] = log.completed })
RECURSIVE LogsMap(_, _, _)
LogsMap(data, k, logsMap) ==
    IF k > Len(data) THEN logsMap
    ELSE LogsMap(data, k + 1,
                 [id \in DOMAIN logsMap \cup {data[k].habit_id} |->
                     IF id = data[k].habit_id THEN data[k].completed ELSE logsMap[id]])

\* todayLogs[habitId], undefined counting as false
IsCompletedToday(logs, habitId) == habitId \in DOMAIN logs /\ logs[habitId]

\* prev => ({ ...prev, [habitId]: value })
WithLog(prev, habitId, value) ==
    [id \in DOMAIN prev \cup {habitId} |-> IF id = habitId THEN value ELSE prev[id]]

\* A variant of ViolatesUnique for a table without the constraint.
ViolatesUnique_NoConstraint(rows, row) == FALSE

\* UNIQUE(habit_id, user_id, date) of table habit_logs
ViolatesUnique(rows, row) ==
    \E r \in rows : /\ r.habit_id = row.habit_id
                    /\ r.user_id = row.user_id
                    /\ r.date = row.date

\* The record of the streaks computed so far, as setStreaks gets it.
StreaksOf(data) ==
    [id \in {data[i].id : i \in 1..Len(data)} |->
        (CHOOSE e \in {data[i] : i \in 1..Len(data)} : e.id = id).streak]

\* At most StoredHabits habits are stored when the dashboard opens.
StoredHabits == 1

\* What mounting DashboardPage sets: the initial state of DashboardPage,
\* HabitList and StatsCards, and the fetchHabits of the mount effect.
Mounted(hs) ==
    /\ habits' = <<>>
    /\ loading' = TRUE
    /\ todayLogs' = <<>>
    /\ streaks' = <<>>
    /\ stats' = InitialStats
    /\ statsDone' = FALSE
    /\ handlers' = hs (+) SetToBag({HabitHandler("fetchHabits", "getUser", 0, <<>>)})

InitHabit ==
    /\ now = Noon
    \* the habits of the user, and a habit of the other user with a log of today
    /\ habitRows = {[id |-> i, user_id |-> Me, name |-> "old", is_archived |-> FALSE] :
                        i \in 1..StoredHabits}
                      \cup {[id |-> StoredHabits + 1, user_id |-> Other, name |-> "old",
                              is_archived |-> FALSE]}
    /\ logRows = {[id |-> 1, habit_id |-> StoredHabits + 1, user_id |-> Other,
                   date |-> Today, completed |-> TRUE]}
    /\ nextLogId = 2
    /\ session \in {Me, NoUser}
    /\ route = "dashboard"
    /\ habits = <<>>
    /\ loading = TRUE
    /\ todayLogs = <<>>
    /\ streaks = <<>>
    /\ streaksDone = FALSE
    /\ stats = InitialStats
    /\ statsDone = FALSE
    /\ toast = "none"
    /\ settled = {}
    /\ clicks = 0
    \* useEffect(() => { fetchHabits() }, [])
    /\ handlers = SetToBag({HabitHandler("fetchHabits", "getUser", 0, <<>>)})
    /\ transactions = <<>> /\ totals = RenderTotals(<<>>) /\ totalsDone = TRUE
    /\ txRows = {} /\ nextTxId = 1
    /\ showAddForm = FALSE
    /\ IdleDialogs
    /\ IdleLogin

\* The variables of the finance dashboard, which the habit tracker leaves alone.
restVars == <<totalsVars, txRows, nextTxId, showAddForm, streaksDone, now, loginVars>>
otherVars == <<restVars, dialogVars>>

\* The session ends while the dashboard is open: the refresh token expires or is
\* revoked, or the user signs out in another tab.
SessionEnds ==
    /\ session # NoUser
    /\ session' = NoUser
    /\ UNCHANGED <<otherVars, habits, stats, statsDone, logRows, streaks, loading,
                   handlers, clicks, settled, dashVars>>

\* LoginPage.handleAuth with the right password: signInWithPassword, then
\* router.push('/dashboard'), which mounts DashboardPage. The user signs in once
\* the requests of the page left behind have been answered (what those set in
\* the state of the unmounted page is lost with it).
SignIn ==
    /\ route = "login"
    /\ handlers = EmptyBag
    /\ clicks < MaxClicks
    /\ clicks' = clicks + 1
    /\ session' = Me
    /\ route' = "dashboard"
    /\ Mounted(EmptyBag)
    /\ UNCHANGED <<otherVars, logRows, settled, habitRows, nextLogId, toast>>

\* What every handler does at its getUser: without a user it returns.
AfterGetUser(h, pc) ==
    IF session = NoUser THEN Returns(h)
    ELSE Becomes(h, [h EXCEPT !.pc = pc, !.user = session, !.identified = TRUE])

\* fetchHabits, lines 27-31: without a user, router.push('/login') and, in the
\* finally, setLoading(false).
FetchGetUser(h) ==
    /\ h.kind = "fetchHabits" /\ h.pc = "getUser"
    /\ handlers' = AfterGetUser(h, "select")
    /\ route' = IF session = NoUser THEN "login" ELSE route
    /\ loading' = IF session = NoUser THEN FALSE ELSE loading
    /\ UNCHANGED <<otherVars, habits, stats, statsDone, logRows, streaks, session,
                   clicks, settled, habitRows, nextLogId, todayLogs, toast>>

\* The service answers the select of lines 33-38.
FetchSelect(h) ==
    /\ h.kind = "fetchHabits" /\ h.pc = "select"
    /\ handlers' = Becomes(h, [h EXCEPT !.pc = "done",
                                        !.data = SelectHabits(habitRows, logRows, h.user)])
    /\ UNCHANGED <<otherVars, habits, stats, statsDone, logRows, streaks, loading,
                   session, clicks, settled, dashVars>>

\* fetchHabits, lines 40-47. After setHabits the effects on [habits] run:
\* StatsCards.calculateStats, and in HabitList, when the list is not empty,
\* fetchTodayLogs() and calculateStreaks().
FetchSettles(h) ==
    /\ h.kind = "fetchHabits" /\ h.pc = "done"
    /\ loading' = FALSE
    /\ IF h.error # NoError
       THEN /\ toast' = "Failed to load habits"
            /\ handlers' = Returns(h)
            /\ UNCHANGED <<habits, stats, statsDone>>
       ELSE /\ habits' = h.data
            /\ stats' = CalculateStats(habits', now)
            /\ statsDone' = TRUE
            /\ handlers' =
                  IF Len(habits') > 0
                  THEN Returns(h)
                         (+) SetToBag({HabitHandler("fetchTodayLogs", "getUser", 0, IdsOf(habits'))})
                         (+) SetToBag({HabitHandler("calculateStreaks", "getUser", 0, IdsOf(habits'))})
                  ELSE Returns(h)
            /\ UNCHANGED toast
    /\ UNCHANGED <<otherVars, logRows, streaks, session, clicks, settled, habitRows,
                   nextLogId, todayLogs, route>>

\* fetchTodayLogs, lines 54-55.
TodayGetUser(h) ==
    /\ h.kind = "fetchTodayLogs" /\ h.pc = "getUser"
    /\ handlers' = AfterGetUser(h, "select")
    /\ UNCHANGED <<otherVars, habits, stats, statsDone, logRows, streaks, loading,
                   session, clicks, settled, dashVars>>

\* The service answers the select of lines 57-61.
TodaySelect(h) ==
    /\ h.kind = "fetchTodayLogs" /\ h.pc = "select"
    /\ handlers' = Becomes(h, [h EXCEPT !.pc = "done",
                                        !.data = SelectTodayLogs(logRows, h.user, h.today)])
    /\ UNCHANGED <<otherVars, habits, stats, statsDone, logRows, streaks, loading,
                   session, clicks, settled, dashVars>>

\* fetchTodayLogs, lines 63-67: the error of the select is not read, and
\* without data the map stays empty.
TodaySettles(h) ==
    /\ h.kind = "fetchTodayLogs" /\ h.pc = "done"
    /\ todayLogs' = LogsMap(h.data, 1, <<>>)
    /\ handlers' = Returns(h)
    /\ UNCHANGED <<otherVars, habits, stats, statsDone, logRows, streaks, loading,
                   session, clicks, settled, habitRows, nextLogId, toast, route>>

\* calculateStreaks, lines 75-78.
StreaksGetUser(h) ==
    /\ h.kind = "calculateStreaks" /\ h.pc = "getUser"
    /\ handlers' = AfterGetUser(h, "select")
    /\ UNCHANGED <<otherVars, habits, stats, statsDone, logRows, streaks, loading,
                   session, clicks, settled, dashVars>>

\* One turn of the loop of lines 80-105: the service answers the select of the
\* next habit of the list, and the handler counts its streak and goes on to the
\* habit after it, or to setStreaks.
StreaksSelect(h) ==
    /\ h.kind = "calculateStreaks" /\ h.pc = "select"
    /\ LET habitId == h.closure[Len(h.data) + 1]
           logs    == SelectCompletedLogs(logRows, h.user, habitId)
           streak  == HabitStreakLoop(logs, now, 1, 0)
           data    == Append(h.data, [id |-> habitId, streak |-> streak])
       IN  handlers' = Becomes(h, [h EXCEPT !.data = data,
                                            !.pc = IF Len(data) = Len(h.closure)
                                                   THEN "done" ELSE "select"])
    /\ UNCHANGED <<otherVars, habits, stats, statsDone, logRows, streaks, loading,
                   session, clicks, settled, dashVars>>

\* calculateStreaks, line 107.
StreaksSettles(h) ==
    /\ h.kind = "calculateStreaks" /\ h.pc = "done"
    /\ streaks' = StreaksOf(h.data)
    /\ handlers' = Returns(h)
    /\ UNCHANGED <<otherVars, habits, stats, statsDone, logRows, loading,
                   session, clicks, settled, dashVars>>

\* The habits the dashboard shows, with their checkboxes and buttons.
Shown(habitId) ==
    /\ route = "dashboard"
    /\ ~loading
    /\ \E i \in 1..Len(habits) : habits[i].id = habitId

\* The user clicks the checkbox of a habit: toggleHabit(habit.id) of the
\* current render starts, with the todayLogs, today and habits of that render.
StartToggle(habitId) ==
    /\ Shown(habitId)
    /\ clicks' = clicks + 1
    /\ handlers' = Starts([HabitHandler("toggleHabit", "getUser", habitId, IdsOf(habits))
                              EXCEPT !.isCompleted = IsCompletedToday(todayLogs, habitId)])
    /\ UNCHANGED <<otherVars, habits, stats, statsDone, logRows, streaks, loading,
                   session, settled, dashVars>>

\* The clicks on the checkboxes, up to MaxClicks user actions in a run.
ClickToggle(habitId) == clicks < MaxClicks /\ StartToggle(habitId)

\* toggleHabit, lines 115-120.
ToggleGetUser(h) ==
    /\ h.kind = "toggleHabit" /\ h.pc = "getUser"
    /\ handlers' = AfterGetUser(h, IF h.isCompleted THEN "delete" ELSE "insert")
    /\ UNCHANGED <<otherVars, habits, stats, statsDone, logRows, streaks, loading,
                   session, clicks, settled, dashVars>>

\* The service runs the delete of lines 121-126.
ToggleDelete(h) ==
    /\ h.kind = "toggleHabit" /\ h.pc = "delete"
    /\ logRows' = {r \in logRows : ~(/\ OwnedBy(r, h.user)
                                     /\ r.habit_id = h.habitId
                                     /\ r.user_id = h.user
                                     /\ r.date = h.today)}
    /\ handlers' = Becomes(h, [h EXCEPT !.pc = "done"])
    /\ UNCHANGED <<otherVars, habits, stats, statsDone, streaks, loading,
                   session, clicks, settled, dashVars>>

\* The service runs the insert of lines 133-142, unless the new row would be a
\* second one for its (habit_id, user_id, date). The row carries the user of the
\* request as user_id, so the policy WITH CHECK (auth.uid() = user_id) lets it in.
ToggleInsert(h) ==
    /\ h.kind = "toggleHabit" /\ h.pc = "insert"
    /\ LET row == [id |-> nextLogId, habit_id |-> h.habitId, user_id |-> h.user,
                   date |-> h.today, completed |-> TRUE]
       IN  IF ViolatesUnique(logRows, row)
           THEN /\ handlers' = Becomes(h, [h EXCEPT !.pc = "done", !.error = UniqueViolated])
                /\ UNCHANGED <<logRows, nextLogId>>
           ELSE /\ logRows' = logRows \cup {row}
                /\ nextLogId' = nextLogId + 1
                /\ handlers' = Becomes(h, [h EXCEPT !.pc = "done"])
    /\ UNCHANGED <<otherVars, habits, stats, statsDone, streaks, loading,
                   session, clicks, settled, habitRows, todayLogs, toast, route>>

\* A variant of ToggleSettles that updates todayLogs before it looks at the error.
ToggleSettles_Optimistic(h) ==
    /\ h.kind = "toggleHabit" /\ h.pc = "done"
    /\ todayLogs' = WithLog(todayLogs, h.habitId, ~h.isCompleted)
    /\ IF h.error # NoError
       THEN /\ toast' = h.error
            /\ handlers' = Returns(h)
       ELSE /\ toast' = IF h.isCompleted THEN "Habit unchecked for today"
                        ELSE "Great job! Habit completed!"
            /\ handlers' = Returns(h)
                  (+) SetToBag({HabitHandler("calculateStreaks", "getUser", 0, h.closure)})
                  (+) SetToBag({HabitHandler("fetchHabits", "getUser", 0, <<>>)})
    /\ UNCHANGED <<otherVars, habits, stats, statsDone, logRows, streaks, loading,
                   session, clicks, settled, habitRows, nextLogId, route>>

\* toggleHabit, lines 128-131 or 144-154: with an error, toast.error(error.message);
\* without, setTodayLogs, toast.success, calculateStreaks() and onUpdate().
ToggleSettles(h) ==
    /\ h.kind = "toggleHabit" /\ h.pc = "done"
    /\ IF h.error # NoError
       THEN /\ toast' = h.error
            /\ handlers' = Returns(h)
            /\ UNCHANGED todayLogs
       ELSE /\ todayLogs' = WithLog(todayLogs, h.habitId, ~h.isCompleted)
            /\ toast' = IF h.isCompleted THEN "Habit unchecked for today"
                        ELSE "Great job! Habit completed!"
            /\ handlers' = Returns(h)
                  (+) SetToBag({HabitHandler("calculateStreaks", "getUser", 0, h.closure)})
                  (+) SetToBag({HabitHandler("fetchHabits", "getUser", 0, <<>>)})
    /\ UNCHANGED <<otherVars, habits, stats, statsDone, logRows, streaks, loading,
                   session, clicks, settled, habitRows, nextLogId, route>>

\* The user opens the archive dialog of a habit and confirms:
\* DeleteHabitDialog.handleDelete issues its update, lines 34-39, with the token
\* of the session at that moment.
ClickArchive(habitId) ==
    /\ Shown(habitId)
    /\ clicks < MaxClicks
    /\ clicks' = clicks + 1
    /\ handlers' = Starts([HabitHandler("handleDelete", "update", habitId, <<>>)
                              EXCEPT !.user = session, !.writes = 1])
    /\ UNCHANGED <<otherVars, habits, stats, statsDone, logRows, streaks, loading,
                   session, settled, dashVars>>

\* The service runs update({ is_archived: true }).eq('id', habit.id) on the rows
\* the policy "Users can update their own habits" lets the request see.
ArchiveUpdate(h) ==
    /\ h.kind = "handleDelete" /\ h.pc = "update"
    /\ habitRows' = {IF r.id = h.habitId /\ OwnedBy(r, h.user)
                     THEN [r EXCEPT !.is_archived = TRUE] ELSE r : r \in habitRows}
    /\ handlers' = Becomes(h, [h EXCEPT !.pc = "done"])
    /\ UNCHANGED <<otherVars, habits, stats, statsDone, logRows, streaks, loading,
                   session, clicks, settled, nextLogId, todayLogs, toast, route>>

\* handleDelete, lines 41-50: with an error, toast.error; without,
\* toast.success and onSuccess(), which calls fetchHabits().
ArchiveSettles(h) ==
    /\ h.kind = "handleDelete" /\ h.pc = "done"
    /\ IF h.error # NoError
       THEN /\ toast' = h.error
            /\ handlers' = Returns(h)
            /\ UNCHANGED <<settled, deletingHabit>>
       ELSE /\ toast' = "Habit archived successfully"
            /\ settled' = settled \cup {h.habitId}
            \* onSuccess: setDeletingHabit(null); onUpdate(), then onOpenChange(false)
            /\ deletingHabit' = 0
            /\ handlers' = Becomes(h, [HabitHandler("fetchHabits", "getUser", 0, <<>>)
                                          EXCEPT !.after = settled'])
    \* finally { setLoading(false) }
    /\ deleteLoading' = FALSE
    /\ UNCHANGED <<restVars, showCreateDialog, editingHabit, categories, editCategories,
                   formCategory, createLoading, editLoading,
                   habits, stats, statsDone, logRows, streaks, loading,
                   session, clicks, habitRows, nextLogId, todayLogs, route>>

\* A request of the habit tracker fails (transport or service) and changes
\* nothing in the tables: the await yields { data: null, error }. In the loop of
\* calculateStreaks a select without data counts as a streak of 0.
HabitRequestFails(h) ==
    /\ h.pc \in {"select", "insert", "delete", "update"}
    /\ handlers' =
          IF h.kind = "calculateStreaks"
          THEN LET data == Append(h.data, [id |-> h.closure[Len(h.data) + 1], streak |-> 0])
               IN  Becomes(h, [h EXCEPT !.data = data,
                                        !.pc = IF Len(data) = Len(h.closure)
                                               THEN "done" ELSE "select"])
          ELSE Becomes(h, [h EXCEPT !.pc = "done", !.error = RequestFailed])
    /\ UNCHANGED <<otherVars, habits, stats, statsDone, logRows, streaks, loading,
                   session, clicks, settled, dashVars>>

NextHabit ==
    \/ SessionEnds
    \/ SignIn
    \/ \E id \in 1..StoredHabits : ClickToggle(id)
    \/ \E id \in 1..StoredHabits : ClickArchive(id)
    \/ \E h \in BagToSet(handlers) : FetchGetUser(h)
    \/ \E h \in BagToSet(handlers) : FetchSelect(h)
    \/ \E h \in BagToSet(handlers) : FetchSettles(h)
    \/ \E h \in BagToSet(handlers) : TodayGetUser(h)
    \/ \E h \in BagToSet(handlers) : TodaySelect(h)
    \/ \E h \in BagToSet(handlers) : TodaySettles(h)
    \/ \E h \in BagToSet(handlers) : StreaksGetUser(h)
    \/ \E h \in BagToSet(handlers) : StreaksSelect(h)
    \/ \E h \in BagToSet(handlers) : StreaksSettles(h)
    \/ \E h \in BagToSet(handlers) : ToggleGetUser(h)
    \/ \E h \in BagToSet(handlers) : ToggleDelete(h)
    \/ \E h \in BagToSet(handlers) : ToggleInsert(h)
    \/ \E h \in BagToSet(handlers) : ToggleSettles(h)
    \/ \E h \in BagToSet(handlers) : ArchiveUpdate(h)
    \/ \E h \in BagToSet(handlers) : ArchiveSettles(h)
    \/ \E h \in BagToSet(handlers) : HabitRequestFails(h)

SpecHabit == InitHabit /\ [][NextHabit]_vars

\* The number of copies of handler h among the handlers hs in flight.
InFlight(h, hs) == IF h \in BagToSet(hs) THEN CopiesIn(h, hs) ELSE 0

\* The step taken is one of handler h: a copy of it has left the bag.
Stepped(h) == InFlight(h, handlers') < InFlight(h, handlers)

\* A row is stored for the key a toggle would insert.
KeyStored(h) ==
    \E r \in logRows : r.habit_id = h.habitId /\ r.user_id = h.user /\ r.date = h.today

\* C7: once handleDelete has succeeded for a habit, the habit's row is still
\* stored with is_archived set, and no fetchHabits started afterwards gets the
\* habit from the service.
C7_ArchivedIsHidden ==
    /\ \A id \in settled : \E r \in habitRows : r.id = id /\ r.is_archived
    /\ \A h \in BagToSet(handlers) :
          (h.kind = "fetchHabits" /\ h.pc = "done") =>
              \A i \in 1..Len(h.data) : h.data[i].id \notin h.after

\* The part of C7 on later fetches, on its own.
C7_NeverFetchedAgain ==
    \A h \in BagToSet(handlers) :
        (h.kind = "fetchHabits" /\ h.pc = "done") =>
            \A i \in 1..Len(h.data) : h.data[i].id \notin h.after

\* The frame of C7: no step removes a habit row or changes anything of it but
\* is_archived, which only goes from false to true, and the step of the archive
\* update leaves habit_logs as it is.
C7_OnlyTheFlagFlips ==
    [][/\ \A r \in habitRows : \E q \in habitRows' :
              /\ q.id = r.id /\ q.user_id = r.user_id
              /\ (r.is_archived => q.is_archived)
       /\ habitRows' # habitRows => logRows' = logRows]_vars

\* C8: an insert of toggleHabit for a key that has a row stores nothing and
\* does not succeed, and the toggle whose insert was rejected by the constraint
\* leaves habit_logs and todayLogs as they are and shows the error, not a
\* success toast.
C8_RejectedInsertChangesNothing ==
    [][\A h \in BagToSet(handlers) :
          (Stepped(h) /\ h.kind = "toggleHabit") =>
              /\ (h.pc = "insert" /\ KeyStored(h)) =>
                    /\ logRows' = logRows
                    /\ InFlight([h EXCEPT !.pc = "done"], handlers')
                          <= InFlight([h EXCEPT !.pc = "done"], handlers)
              /\ (h.pc = "done" /\ h.error = UniqueViolated) =>
                    /\ logRows' = logRows
                    /\ todayLogs' = todayLogs
                    /\ toast' = UniqueViolated]_vars

\* A rejected insert has been surfaced: the toast shows the constraint's error
\* while the row of the first insert is stored.
C8_Witness ==
    /\ toast = UniqueViolated
    /\ \E r \in logRows : r.habit_id = 1 /\ r.user_id = Me /\ r.date = Today /\ r.completed

\* C9: habit_logs holds at most one row per (habit_id, user_id, date).
C9_OneLogPerKey ==
    \A r1, r2 \in logRows :
        (r1.habit_id = r2.habit_id /\ r1.user_id = r2.user_id /\ r1.date = r2.date)
            => r1 = r2

\* Two toggles of one habit issued before the first settles: the row of one is
\* stored while the insert of the other is on its way.
C9_Witness ==
    \E h \in BagToSet(handlers) :
        /\ h.kind = "toggleHabit" /\ h.pc = "insert" /\ KeyStored(h)
        /\ \E g \in BagToSet(handlers) : g.kind = "toggleHabit" /\ g.pc = "done" /\ g # h

-----------------------------------------------------------------------------
(* The dialogs of the habit tracker: CreateHabitDialog, EditHabitDialog and   *)
(* DeleteHabitDialog, opened from DashboardPage and HabitList.                *)

CreateFetch == "CreateHabitDialog.fetchCategories"
CreateSubmit == "CreateHabitDialog.handleSubmit"
EditFetch == "EditHabitDialog.fetchCategories"
EditSubmit == "EditHabitDialog.handleSubmit"

\* No dialog is open: the buttons of the page can be clicked.
NoDialog == ~showCreateDialog /\ editingHabit = 0 /\ deletingHabit = 0

habitData == <<habits, stats, statsDone, logRows, streaks, loading, settled, nextLogId,
               todayLogs>>

\* part_001 line 77: the New Habit button, setShowCreateDialog(true); the
\* dialog's effect on [open] calls fetchCategories().
OpenCreate ==
    /\ route = "dashboard" /\ ~loading /\ NoDialog
    /\ clicks < MaxClicks
    /\ clicks' = clicks + 1
    /\ showCreateDialog' = TRUE
    /\ handlers' = Starts(HabitHandler(CreateFetch, "select", 0, <<>>))
    /\ UNCHANGED <<restVars, habitData, habitRows, toast, route, session,
                   editingHabit, deletingHabit, categories, editCategories,
                   formCategory, createLoading, editLoading, deleteLoading>>

\* from('habit_categories').select('*').order('name'): the policy lets
\* everyone read the categories.
CategoriesSelect(h) ==
    /\ h.kind \in {CreateFetch, EditFetch} /\ h.pc = "select"
    /\ handlers' = Becomes(h, [h EXCEPT !.pc = "done"])
    /\ UNCHANGED <<otherVars, habitData, habitRows, toast, route, session, clicks>>

\* fetchCategories after its select: setCategories(data || []), or the toast.
\* The categories of an EditHabitDialog that is no longer mounted are not set.
CategoriesSettle(h) ==
    /\ h.kind \in {CreateFetch, EditFetch} /\ h.pc = "done"
    /\ handlers' = Returns(h)
    /\ toast' = IF h.error # NoError THEN "Failed to load categories" ELSE toast
    /\ categories' = IF h.kind = CreateFetch /\ h.error = NoError THEN TRUE ELSE categories
    /\ editCategories' = IF /\ h.kind = EditFetch /\ h.error = NoError
                            /\ editingHabit = h.habitId
                         THEN TRUE ELSE editCategories
    /\ UNCHANGED <<restVars, habitData, habitRows, route, session, clicks,
                   showCreateDialog, editingHabit, deletingHabit, formCategory,
                   createLoading, editLoading, deleteLoading>>

\* The user picks a category of the loaded list in the create form.
ChooseCategory ==
    /\ showCreateDialog /\ categories /\ ~formCategory
    /\ formCategory' = TRUE
    /\ UNCHANGED <<restVars, habitData, habitRows, toast, route, asyncVars,
                   showCreateDialog, editingHabit, deletingHabit, categories,
                   editCategories, createLoading, editLoading, deleteLoading>>

\* The Cancel button of the create dialog, disabled while loading.
CancelCreate ==
    /\ showCreateDialog /\ ~createLoading
    /\ showCreateDialog' = FALSE
    /\ UNCHANGED <<restVars, habitData, habitRows, toast, route, asyncVars,
                   editingHabit, deletingHabit, categories, editCategories,
                   formCategory, createLoading, editLoading, deleteLoading>>

\* The create form is submitted: setLoading(true), then getUser is awaited.
\* The handler keeps the categories and the form of the render it was made in.
SubmitCreate ==
    /\ showCreateDialog /\ ~createLoading
    /\ formCategory      \* the Select is `required`, line 151
    /\ clicks < MaxClicks
    /\ clicks' = clicks + 1
    /\ createLoading' = TRUE
    /\ handlers' = Starts([HabitHandler(CreateSubmit, "getUser", 0, <<>>)
                              EXCEPT !.selectedCategory = categories /\ formCategory])
    /\ UNCHANGED <<restVars, habitData, habitRows, toast, route, session,
                   showCreateDialog, editingHabit, deletingHabit, categories,
                   editCategories, formCategory, editLoading, deleteLoading>>

\* A variant of CreateGetUser whose checks come before the try statement: the
\* return of a failed check does not pass through finally.
CreateGetUser_ChecksBeforeTry(h) ==
    /\ h.kind = CreateSubmit /\ h.pc = "getUser"
    /\ IF session = NoUser \/ ~h.selectedCategory
       THEN /\ handlers' = Returns(h)
            /\ toast' = IF session = NoUser THEN "You must be logged in"
                        ELSE "Please select a category"
       ELSE /\ handlers' = Becomes(h, [h EXCEPT !.pc = "insert", !.user = session,
                                                !.identified = TRUE, !.writes = h.writes + 1])
            /\ UNCHANGED toast
    /\ UNCHANGED <<restVars, habitData, habitRows, route, session, clicks,
                   showCreateDialog, editingHabit, deletingHabit, categories,
                   editCategories, formCategory, createLoading, editLoading, deleteLoading>>

\* handleSubmit of the create dialog, lines 68-79: no user, or no category
\* found, is a toast and a return through finally; else the insert is sent.
CreateGetUser(h) ==
    /\ h.kind = CreateSubmit /\ h.pc = "getUser"
    /\ IF session = NoUser \/ ~h.selectedCategory
       THEN /\ handlers' = Returns(h)
            /\ toast' = IF session = NoUser THEN "You must be logged in"
                        ELSE "Please select a category"
            /\ createLoading' = FALSE
       ELSE /\ handlers' = Becomes(h, [h EXCEPT !.pc = "insert", !.user = session,
                                                !.identified = TRUE, !.writes = h.writes + 1])
            /\ UNCHANGED <<toast, createLoading>>
    /\ UNCHANGED <<restVars, habitData, habitRows, route, session, clicks,
                   showCreateDialog, editingHabit, deletingHabit, categories,
                   editCategories, formCategory, editLoading, deleteLoading>>

\* from('habits').insert([{ user_id: user.id, ... }]) under the policy
\* WITH CHECK (auth.uid() = user_id).
CreateInsert(h) ==
    /\ h.kind = CreateSubmit /\ h.pc = "insert"
    /\ IF OwnedBy([user_id |-> h.user], h.user)
       THEN /\ habitRows' = habitRows \cup
                  {[id |-> Cardinality(habitRows) + 1, user_id |-> h.user,
                    name |-> "new", is_archived |-> FALSE]}
            /\ handlers' = Becomes(h, [h EXCEPT !.pc = "done"])
       ELSE /\ UNCHANGED habitRows
            /\ handlers' = Becomes(h, [h EXCEPT !.pc = "done", !.error = RequestFailed])
    /\ UNCHANGED <<otherVars, habitData, toast, route, session, clicks>>

\* A variant of CreateSettles that refreshes and closes whatever the insert
\* answered.
CreateSettles_CloseAlways(h) ==
    /\ h.kind = CreateSubmit /\ h.pc = "done"
    /\ toast' = IF h.error # NoError THEN h.error ELSE "Habit created successfully!"
    /\ handlers' = Becomes(h, HabitHandler("fetchHabits", "getUser", 0, <<>>))
    /\ showCreateDialog' = FALSE
    /\ formCategory' = FALSE
    /\ createLoading' = FALSE
    /\ UNCHANGED <<restVars, habitData, habitRows, route, session, clicks,
                   editingHabit, deletingHabit, categories, editCategories,
                   editLoading, deleteLoading>>

\* handleSubmit of the create dialog, lines 96-112.
CreateSettles(h) ==
    /\ h.kind = CreateSubmit /\ h.pc = "done"
    /\ IF h.error # NoError
       THEN /\ toast' = h.error
            /\ handlers' = Returns(h)
            /\ UNCHANGED <<showCreateDialog, formCategory>>
       ELSE /\ toast' = "Habit created successfully!"
            \* onSuccess(): fetchHabits; onOpenChange(false); the form is reset
            /\ handlers' = Becomes(h, HabitHandler("fetchHabits", "getUser", 0, <<>>))
            /\ showCreateDialog' = FALSE
            /\ formCategory' = FALSE
    /\ createLoading' = FALSE
    /\ UNCHANGED <<restVars, habitData, habitRows, route, session, clicks,
                   editingHabit, deletingHabit, categories, editCategories,
                   editLoading, deleteLoading>>

\* part_000 line 207: the edit button, setEditingHabit(habit); the dialog is
\* mounted with fresh state and its effect calls fetchCategories().
OpenEdit(habitId) ==
    /\ Shown(habitId) /\ NoDialog
    /\ clicks < MaxClicks
    /\ clicks' = clicks + 1
    /\ editingHabit' = habitId
    /\ editCategories' = FALSE
    /\ editLoading' = FALSE
    /\ handlers' = Starts(HabitHandler(EditFetch, "select", habitId, <<>>))
    /\ UNCHANGED <<restVars, habitData, habitRows, toast, route, session,
                   showCreateDialog, deletingHabit, categories, formCategory,
                   createLoading, deleteLoading>>

\* The Cancel button of the edit dialog: onOpenChange(false) is
\* setEditingHabit(null).
CancelEdit ==
    /\ editingHabit # 0 /\ ~editLoading
    /\ editingHabit' = 0
    /\ UNCHANGED <<restVars, habitData, habitRows, toast, route, asyncVars,
                   showCreateDialog, deletingHabit, categories, editCategories,
                   formCategory, createLoading, editLoading, deleteLoading>>

\* The edit form is submitted, lines 76-96: with no category found (the list
\* is not loaded) a toast and a return; else the update is sent, with no
\* getUser, under the session of the moment.
SubmitEdit ==
    /\ editingHabit # 0 /\ ~editLoading
    /\ clicks < MaxClicks
    /\ clicks' = clicks + 1
    /\ IF ~editCategories
       THEN /\ toast' = "Please select a category"
            /\ UNCHANGED <<handlers, editLoading>>
       ELSE /\ editLoading' = TRUE
            /\ handlers' = Starts([HabitHandler(EditSubmit, "update", editingHabit, <<>>)
                                      EXCEPT !.user = session, !.selectedCategory = TRUE,
                                             !.writes = 1])
            /\ UNCHANGED toast
    /\ UNCHANGED <<restVars, habitData, habitRows, route, session,
                   showCreateDialog, editingHabit, deletingHabit, categories,
                   editCategories, formCategory, createLoading, deleteLoading>>

\* from('habits').update({ name: ..., ... }).eq('id', habit.id) under the
\* policy USING (auth.uid() = user_id): a row the token cannot see is not
\* updated and no error is answered.
EditUpdate(h) ==
    /\ h.kind = EditSubmit /\ h.pc = "update"
    /\ habitRows' = {IF r.id = h.habitId /\ OwnedBy(r, h.user)
                     THEN [r EXCEPT !.name = "new"] ELSE r : r \in habitRows}
    /\ handlers' = Becomes(h, [h EXCEPT !.pc = "done"])
    /\ UNCHANGED <<otherVars, habitData, toast, route, session, clicks>>

\* handleSubmit of the edit dialog, lines 98-109; onSuccess is
\* setEditingHabit(null); onUpdate().
EditSettles(h) ==
    /\ h.kind = EditSubmit /\ h.pc = "done"
    /\ IF h.error # NoError
       THEN /\ toast' = h.error
            /\ handlers' = Returns(h)
            /\ UNCHANGED editingHabit
       ELSE /\ toast' = "Habit updated successfully!"
            /\ handlers' = Becomes(h, HabitHandler("fetchHabits", "getUser", 0, <<>>))
            /\ editingHabit' = 0
    /\ editLoading' = FALSE
    /\ UNCHANGED <<restVars, habitData, habitRows, route, session, clicks,
                   showCreateDialog, deletingHabit, categories, editCategories,
                   formCategory, createLoading, deleteLoading>>

\* part_000 line 214: the archive button, setDeletingHabit(habit).
OpenArchive(habitId) ==
    /\ Shown(habitId) /\ NoDialog
    /\ deletingHabit' = habitId
    /\ deleteLoading' = FALSE
    /\ UNCHANGED <<restVars, habitData, habitRows, toast, route, asyncVars,
                   showCreateDialog, editingHabit, categories, editCategories,
                   formCategory, createLoading, editLoading>>

\* The Cancel button of the archive dialog.
CancelArchive ==
    /\ deletingHabit # 0 /\ ~deleteLoading
    /\ deletingHabit' = 0
    /\ UNCHANGED <<restVars, habitData, habitRows, toast, route, asyncVars,
                   showCreateDialog, editingHabit, categories, editCategories,
                   formCategory, createLoading, editLoading, deleteLoading>>

\* The Archive button of the dialog: handleDelete, setLoading(true) and the
\* update is sent, with no getUser, under the session of the moment.
ConfirmArchive ==
    /\ deletingHabit # 0 /\ ~deleteLoading
    /\ clicks < MaxClicks
    /\ clicks' = clicks + 1
    /\ deleteLoading' = TRUE
    /\ handlers' = Starts([HabitHandler("handleDelete", "update", deletingHabit, <<>>)
                              EXCEPT !.user = session, !.writes = 1])
    /\ UNCHANGED <<restVars, habitData, habitRows, toast, route, session,
                   showCreateDialog, editingHabit, deletingHabit, categories,
                   editCategories, formCategory, createLoading, editLoading>>

NextDialogs ==
    \/ SessionEnds
    \/ OpenCreate
    \/ ChooseCategory
    \/ CancelCreate
    \/ SubmitCreate
    \/ \E id \in {r.id : r \in habitRows} : OpenEdit(id)
    \/ CancelEdit
    \/ SubmitEdit
    \/ \E id \in {r.id : r \in habitRows} : OpenArchive(id)
    \/ CancelArchive
    \/ ConfirmArchive
    \/ \E h \in BagToSet(handlers) : CategoriesSelect(h)
    \/ \E h \in BagToSet(handlers) : CategoriesSettle(h)
    \/ \E h \in BagToSet(handlers) : CreateGetUser(h)
    \/ \E h \in BagToSet(handlers) : CreateInsert(h)
    \/ \E h \in BagToSet(handlers) : CreateSettles(h)
    \/ \E h \in BagToSet(handlers) : EditUpdate(h)
    \/ \E h \in BagToSet(handlers) : EditSettles(h)
    \/ \E h \in BagToSet(handlers) : ArchiveUpdate(h)
    \/ \E h \in BagToSet(handlers) : ArchiveSettles(h)
    \/ \E h \in BagToSet(handlers) : FetchGetUser(h)
    \/ \E h \in BagToSet(handlers) : FetchSelect(h)
    \/ \E h \in BagToSet(handlers) : FetchSettles(h)
    \/ \E h \in BagToSet(handlers) : TodayGetUser(h)
    \/ \E h \in BagToSet(handlers) : TodaySelect(h)
    \/ \E h \in BagToSet(handlers) : TodaySettles(h)
    \/ \E h \in BagToSet(handlers) : StreaksGetUser(h)
    \/ \E h \in BagToSet(handlers) : StreaksSelect(h)
    \/ \E h \in BagToSet(handlers) : StreaksSettles(h)
    \/ \E h \in BagToSet(handlers) : HabitRequestFails(h)

SpecDialogs == InitHabit /\ [][NextDialogs]_vars

-----------------------------------------------------------------------------
(* The claims about page loads, failures and requests of both dashboards.    *)

\* The handler a dashboard page starts when it loads.
PageLoad(h) == h.kind \in {"loadTransactions", "fetchHabits"}

\* C11: on every page load of a dashboard the identity is fetched, and when
\* getUser answers that there is no identity the browser is sent to the
\* login view.
C11_NoIdentityRedirects ==
    [][\A h \in BagToSet(handlers) :
          (PageLoad(h) /\ h.pc = "getUser" /\ Stepped(h) /\ session = NoUser) =>
              route' = "login"]_vars

\* A step of a handler of the finance dashboard: an awaited call is answered,
\* with data or with an error, and the handler runs to its next await.
FinanceHandlerStep ==
    \E h \in BagToSet(handlers) :
        \/ LoadGetUser(h) \/ LoadSelect(h) \/ LoadSettles(h)
        \/ AddGetUser(h) \/ AddInsert(h) \/ AddSettles(h)
        \/ DeleteRuns(h) \/ DeleteSettles(h)
        \/ RequestFails(h)

\* The finance dashboard when every awaited call is answered in the end.
SpecFinanceLive == InitFinance /\ [][NextFinance]_vars /\ WF_vars(FinanceHandlerStep)

\* A step of a handler of the habit tracker's page load.
HabitLoadStep ==
    \E h \in BagToSet(handlers) :
        \/ FetchGetUser(h) \/ FetchSelect(h) \/ FetchSettles(h)
        \/ (h.kind = "fetchHabits" /\ HabitRequestFails(h))

\* The habit tracker when every awaited call of fetchHabits is answered in
\* the end.
SpecHabitLive == InitHabit /\ [][NextHabit]_vars /\ WF_vars(HabitLoadStep)

\* C12: when the request of the page load has settled, with records, with an
\* error or with no identity, the view leaves its loading state: loading is
\* false in the end.
C12_LoadingEnds == <>(~loading)

\* The request of handler h was answered with an error.
Failed(h) ==
    IF "arg" \in DOMAIN h   \* a handler of the finance dashboard: error is a flag
    THEN h.error = TRUE
    ELSE h.error # NoError

\* C13: a handler whose query or write failed leaves the in-memory state as
\* it was: a failed loadTransactions leaves transactions, a failed fetchHabits
\* leaves habits and a failed toggleHabit leaves todayLogs unchanged.
C13_FailureKeepsState ==
    [][\A h \in BagToSet(handlers) :
          (Stepped(h) /\ Failed(h)) =>
              /\ (h.kind = "loadTransactions" => transactions' = transactions)
              /\ (h.kind = "fetchHabits" => habits' = habits)
              /\ (h.kind = "toggleHabit" => todayLogs' = todayLogs)]_vars

\* The awaits at which a handler has a request to the storage service to send.
RequestPcs == {"select", "insert", "delete", "update"}

\* C18: every select, insert, update or delete a handler sends is preceded,
\* within that handler, by a completed getUser.
C18_IdentityBeforeRequest ==
    \A h \in BagToSet(handlers) : h.pc \in RequestPcs => h.identified

\* The component whose code handler h runs.
ViewOf(h) ==
    IF "arg" \in DOMAIN h THEN "Dashboard"
    ELSE IF h.kind = "fetchHabits" THEN "DashboardPage"
    ELSE IF h.kind = "handleDelete" THEN "DeleteHabitDialog"
    ELSE "HabitList"

\* The number of handlers of view v that wait for an answer of the external
\* service: every handler in flight is at an await of a call to it.
RequestsInFlight(v) ==
    LET mine == {h \in BagToSet(handlers) : ViewOf(h) = v}
    IN  IF mine = {} THEN 0 ELSE BagCardinality([h \in mine |-> handlers[h]])

\* C19: no operation is parallelized: in every reachable state each view has
\* at most one request to the external service in flight.
C19_OneRequestPerView ==
    \A v \in {"Dashboard", "DashboardPage", "DeleteHabitDialog", "HabitList"} :
        RequestsInFlight(v) <= 1

\* C20: every transaction stored through the finance app has a positive
\* amount, whatever number the add form was submitted with.
C20_StoredAmountsPositive == \A r \in txRows : r.amount > 0

\* The stored rows of the three tables that belong to user uid.
RowsOf(uid) ==
    [transactions |-> {r \in txRows : r.user_id = uid},
     habits       |-> {r \in habitRows : r.user_id = uid},
     habit_logs   |-> {r \in logRows : r.user_id = uid}]

\* The ids of the habits stored for user uid.
HabitIdsOf(uid) == {r.id : r \in RowsOf(uid).habits}

\* Everything the views of the signed-in user hold is a row of that user.
ListsAreOwn ==
    /\ \A i \in 1..Len(transactions) : transactions[i].user_id = Me
    /\ \A i \in 1..Len(habits) : habits[i].id \in HabitIdsOf(Me)
    /\ DOMAIN todayLogs \subseteq HabitIdsOf(Me)
    /\ DOMAIN streaks \subseteq HabitIdsOf(Me)

-----------------------------------------------------------------------------
(* The claims about the dialogs and the refetch after a mutation.            *)

\* The handlers that a submit of a habit dialog starts.
SubmitKinds == {CreateSubmit, EditSubmit, "handleDelete"}

\* A handler of the given kind has come into flight, or has moved on, in the
\* step taken.
Gained(kind) ==
    \E g \in BagToSet(handlers') :
        g.kind = kind /\ InFlight(g, handlers') > InFlight(g, handlers)

\* The step taken is the last one of handler h.
Ends(h) == Stepped(h) /\ ~Gained(h.kind)

\* The step taken calls fetchHabits: the refresh callback of the dialogs.
Refreshes ==
    \E g \in BagToSet(handlers') :
        /\ g.kind = "fetchHabits" /\ g.pc = "getUser"
        /\ InFlight(g, handlers') > InFlight(g, handlers)

\* Whether the dialog of a submit handler of the given kind is open, given
\* the state of DashboardPage and HabitList.
IsOpen(kind, create, editing, deleting) ==
    IF kind = CreateSubmit THEN create
    ELSE IF kind = EditSubmit THEN editing # 0
    ELSE deleting # 0

\* The step taken closes the dialog of handler h.
Closes(h) ==
    /\ IsOpen(h.kind, showCreateDialog, editingHabit, deletingHabit)
    /\ ~IsOpen(h.kind, showCreateDialog', editingHabit', deletingHabit')

\* The write of handler h was answered without an error.
WriteSucceeded(h) == h.pc = "done" /\ h.error = NoError /\ h.writes = 1

\* C14, as stated: every submit of the create, edit and archive dialogs issues
\* exactly one write, a write that succeeded is followed by the refresh
\* callback and the close, and neither happens without it.
C14_ExactlyOneWrite ==
    [][\A h \in BagToSet(handlers) :
          (h.kind \in SubmitKinds /\ Stepped(h)) =>
              /\ Ends(h) => h.writes = 1
              /\ WriteSucceeded(h) => (Refreshes /\ Closes(h))
              /\ (Refreshes \/ Closes(h)) => WriteSucceeded(h)]_vars

\* C14, amended: every submit of the create, edit and archive dialogs issues
\* at most one write: one when it passes the checks of the handler, none when
\* the handler returns at a check (no identity, no category found); a write
\* that succeeded is followed by the refresh callback and the close, and
\* neither happens without it.
C14_AtMostOneWrite ==
    [][/\ \A h \in BagToSet(handlers) :
            (h.kind \in SubmitKinds /\ Stepped(h)) =>
                /\ Ends(h) => h.writes = (IF h.pc = "done" THEN 1 ELSE 0)
                /\ (Ends(h) /\ h.pc # "done") => (session = NoUser \/ ~h.selectedCategory)
                /\ WriteSucceeded(h) => (Refreshes /\ Closes(h))
                /\ (Refreshes \/ Closes(h)) => WriteSucceeded(h)
       /\ \A g \in BagToSet(handlers') :
            (g.kind = EditSubmit /\ InFlight(g, handlers') > InFlight(g, handlers)) =>
                (editCategories /\ g.writes = 1)]_vars

\* The create dialog has stored a habit of the user, told so and closed.
C14_Witness ==
    /\ toast = "Habit created successfully!"
    /\ ~showCreateDialog
    /\ \E r \in habitRows : r.user_id = Me /\ r.name = "new"

\* Handler h is a handler of the finance dashboard.
OfFinance(h) == "arg" \in DOMAIN h

\* The write of a mutation form was answered with an error, and handler h is
\* about to go on from it.
WriteFailed(h) ==
    IF OfFinance(h)
    THEN h.kind = "handleAddTransaction" /\ h.pc = "inserted" /\ h.error
    ELSE h.kind \in SubmitKinds /\ h.pc = "done" /\ h.error # NoError

\* C15: when the write of a mutation form fails, the error message is shown
\* to the user, the form or dialog stays open, and neither the refresh nor a
\* close happens: for the create, edit and archive dialogs and for the
\* add-transaction form.
C15_FailureSurfacedFormOpen ==
    [][\A h \in BagToSet(handlers) :
          (Stepped(h) /\ WriteFailed(h)) =>
              IF OfFinance(h)
              THEN /\ toast' # "none"
                   /\ showAddForm' = showAddForm
                   /\ ~Gained("loadTransactions")
              ELSE /\ toast' = h.error
                   /\ ~Closes(h)
                   /\ ~Refreshes]_vars

\* The write of a mutation was answered without an error, and handler h is
\* about to go on from it.
SuccessfulMutation(h) ==
    IF OfFinance(h)
    THEN \/ h.kind = "handleAddTransaction" /\ h.pc = "inserted" /\ ~h.error
         \/ h.kind = "handleDelete" /\ h.pc = "deleted" /\ ~h.error
    ELSE /\ h.kind \in SubmitKinds \cup {"toggleHabit"}
         /\ h.pc = "done" /\ h.error = NoError

\* The step taken calls the full refetch of the list of the app of handler h.
Refetches(h) == IF OfFinance(h) THEN Gained("loadTransactions") ELSE Refreshes

\* Handler h is a refetch that has its answer and is about to settle.
RefetchSettles(h) ==
    IF OfFinance(h)
    THEN h.kind = "loadTransactions" /\ h.pc = "selected"
    ELSE h.kind = "fetchHabits" /\ h.pc = "done"

-----------------------------------------------------------------------------
(* The login page, the same in both apps: handleAuth and handleDemo over the *)
(* authentication service. A request to the service is answered with        *)
(* { error }: a sign-in can succeed only for an account that exists and with *)
(* its password, a sign-up leaves a session or not (the project may ask for  *)
(* a confirmation of the address), and every request can fail. authLog holds *)
(* the answers the handler in progress, or the last one, has had.            *)

DemoUser == "demo"
AuthError == "Invalid login credentials"

LoginHandler(kind, pc, email, good) ==
    [kind |-> kind, pc |-> pc, email |-> email, good |-> good]

\* The answer to a request is added to the log.
Answered(h, request, ok) ==
    Append(authLog, [by |-> h.kind, request |-> request, ok |-> ok])

\* signInWithPassword can be answered without an error.
CanSignIn(h) == h.email \in accounts /\ h.good

InitLogin ==
    /\ IdleFinance
    /\ now = Noon
    /\ habits = <<>> /\ stats = InitialStats /\ statsDone = FALSE
    /\ logRows = {} /\ streaks = <<>> /\ streaksDone = FALSE
    /\ habitRows = {} /\ nextLogId = 1 /\ todayLogs = <<>> /\ toast = "none"
    /\ IdleDialogs
    /\ route = "login"
    /\ session = NoUser
    /\ handlers = EmptyBag
    /\ clicks = 0
    /\ isSignUp = FALSE
    /\ error = ""
    /\ accounts \in SUBSET {Me, DemoUser}
    /\ authLog = <<>>

loginRest == <<now, habits, stats, statsDone, logRows, streaks, streaksDone,
               habitRows, nextLogId, todayLogs, toast, dialogVars,
               transactions, totals, totalsDone, txRows, nextTxId, settled, showAddForm>>

\* The link under the form, lines 159-166.
ToggleSignUp ==
    /\ route = "login"
    /\ isSignUp' = ~isSignUp
    /\ error' = ""
    /\ UNCHANGED <<loginRest, loading, route, session, handlers, clicks, accounts, authLog>>

\* The form is submitted: handleAuth, lines 16-23 and 36; good tells whether
\* the password typed is the one of the account.
SubmitAuth(good) ==
    /\ route = "login" /\ ~loading
    /\ clicks < MaxClicks
    /\ clicks' = clicks + 1
    /\ loading' = TRUE
    /\ error' = ""
    /\ authLog' = <<>>
    /\ handlers' = Starts(LoginHandler("handleAuth", IF isSignUp THEN "signUp" ELSE "signIn",
                                       Me, good))
    /\ UNCHANGED <<loginRest, route, session, isSignUp, accounts>>

\* A variant of AuthSignIn that goes to the dashboard whatever the answer.
AuthSignIn_PushAlways(h) ==
    /\ h.kind = "handleAuth" /\ h.pc = "signIn"
    /\ \E ok \in BOOLEAN :
          /\ ok => CanSignIn(h)
          /\ authLog' = Answered(h, "signIn", ok)
          /\ session' = IF ok THEN h.email ELSE session
          /\ route' = "dashboard"
          /\ error' = IF ok THEN error ELSE AuthError
    /\ loading' = FALSE
    /\ handlers' = Returns(h)
    /\ UNCHANGED <<loginRest, clicks, isSignUp, accounts>>

\* handleAuth after signInWithPassword, lines 36-48.
AuthSignIn(h) ==
    /\ h.kind = "handleAuth" /\ h.pc = "signIn"
    /\ \E ok \in BOOLEAN :
          /\ ok => CanSignIn(h)
          /\ authLog' = Answered(h, "signIn", ok)
          /\ session' = IF ok THEN h.email ELSE session
          /\ route' = IF ok THEN "dashboard" ELSE route
          /\ error' = IF ok THEN error ELSE AuthError
    /\ loading' = FALSE
    /\ handlers' = Returns(h)
    /\ UNCHANGED <<loginRest, clicks, isSignUp, accounts>>

\* handleAuth after signUp, lines 23-34: an error is thrown to the catch, else
\* the handler waits 1500 ms.
AuthSignUp(h) ==
    /\ h.kind = "handleAuth" /\ h.pc = "signUp"
    /\ \E ok \in BOOLEAN :
          /\ authLog' = Answered(h, "signUp", ok)
          /\ IF ok
             THEN /\ accounts' = accounts \cup {h.email}
                  /\ session' \in {h.email, session}
                  /\ handlers' = Becomes(h, [h EXCEPT !.pc = "timeout"])
                  /\ UNCHANGED <<error, loading>>
             ELSE /\ error' = AuthError
                  /\ loading' = FALSE
                  /\ handlers' = Returns(h)
                  /\ UNCHANGED <<accounts, session>>
    /\ UNCHANGED <<loginRest, route, clicks, isSignUp>>

\* handleAuth after the timeout, lines 34-48: router.push('/dashboard').
AuthTimeout(h) ==
    /\ h.kind = "handleAuth" /\ h.pc = "timeout"
    /\ route' = "dashboard"
    /\ loading' = FALSE
    /\ handlers' = Returns(h)
    /\ UNCHANGED <<loginRest, session, clicks, loginVars>>

\* The Try Demo Mode button: handleDemo, lines 51-59.
ClickDemo ==
    /\ route = "login" /\ ~loading
    /\ clicks < MaxClicks
    /\ clicks' = clicks + 1
    /\ loading' = TRUE
    /\ error' = ""
    /\ authLog' = <<>>
    /\ handlers' = Starts(LoginHandler("handleDemo", "signIn", DemoUser, TRUE))
    /\ UNCHANGED <<loginRest, route, session, isSignUp, accounts>>

\* A variant of DemoSignIn that signs up whatever the first sign-in answered.
DemoSignIn_AlwaysSignUp(h) ==
    /\ h.kind = "handleDemo" /\ h.pc = "signIn"
    /\ \E ok \in BOOLEAN :
          /\ ok => CanSignIn(h)
          /\ authLog' = Answered(h, "signIn", ok)
          /\ session' = IF ok THEN h.email ELSE session
    /\ handlers' = Becomes(h, [h EXCEPT !.pc = "signUp"])
    /\ UNCHANGED <<loginRest, route, loading, clicks, isSignUp, error, accounts>>

\* handleDemo after its first signInWithPassword, lines 56-62 and 76-81.
DemoSignIn(h) ==
    /\ h.kind = "handleDemo" /\ h.pc = "signIn"
    /\ \E ok \in BOOLEAN :
          /\ ok => CanSignIn(h)
          /\ authLog' = Answered(h, "signIn", ok)
          /\ IF ok
             THEN /\ session' = h.email
                  /\ route' = "dashboard"
                  /\ loading' = FALSE
                  /\ handlers' = Returns(h)
             ELSE /\ handlers' = Becomes(h, [h EXCEPT !.pc = "signUp"])
                  /\ UNCHANGED <<session, route, loading>>
    /\ UNCHANGED <<loginRest, clicks, isSignUp, error, accounts>>

\* handleDemo after signUp, lines 62-70: the answer is not looked at.
DemoSignUp(h) ==
    /\ h.kind = "handleDemo" /\ h.pc = "signUp"
    /\ \E ok \in BOOLEAN :
          /\ authLog' = Answered(h, "signUp", ok)
          /\ accounts' = IF ok THEN accounts \cup {h.email} ELSE accounts
          /\ session' \in IF ok THEN {h.email, session} ELSE {session}
    /\ handlers' = Becomes(h, [h EXCEPT !.pc = "signInAgain"])
    /\ UNCHANGED <<loginRest, route, loading, clicks, isSignUp, error>>

\* handleDemo after its second signInWithPassword, lines 70-81: the answer is
\* not looked at, and router.push('/dashboard') follows.
DemoSignInAgain(h) ==
    /\ h.kind = "handleDemo" /\ h.pc = "signInAgain"
    /\ \E ok \in BOOLEAN :
          /\ ok => CanSignIn(h)
          /\ authLog' = Answered(h, "signIn", ok)
          /\ session' = IF ok THEN h.email ELSE session
    /\ route' = "dashboard"
    /\ loading' = FALSE
    /\ handlers' = Returns(h)
    /\ UNCHANGED <<loginRest, clicks, isSignUp, error, accounts>>

NextLogin ==
    \/ ToggleSignUp
    \/ \E good \in BOOLEAN : SubmitAuth(good)
    \/ ClickDemo
    \/ \E h \in BagToSet(handlers) : AuthSignIn(h)
    \/ \E h \in BagToSet(handlers) : AuthSignUp(h)
    \/ \E h \in BagToSet(handlers) : AuthTimeout(h)
    \/ \E h \in BagToSet(handlers) : DemoSignIn(h)
    \/ \E h \in BagToSet(handlers) : DemoSignUp(h)
    \/ \E h \in BagToSet(handlers) : DemoSignInAgain(h)

SpecLogin == InitLogin /\ [][NextLogin]_vars

\* The last answer the handler of the login page has had.
LastAnswer(log) == log[Len(log)]

\* C21: a failure of handleAuth (a sign-in or a sign-up answered with an
\* error) sets the error of the form, does not go to the dashboard, sends no
\* further request and sets loading back to false.
C21_AuthFailureIsInline ==
    [][\A h \in BagToSet(handlers) :
          (/\ h.kind = "handleAuth" /\ Stepped(h)
           /\ Len(authLog') > Len(authLog) /\ ~LastAnswer(authLog').ok) =>
              /\ error' # ""
              /\ route' = "login"
              /\ handlers' = EmptyBag
              /\ ~loading']_vars

\* A sign-in with a wrong password has failed and the form shows the error.
C21_Witness ==
    /\ authLog # <<>> /\ LastAnswer(authLog).by = "handleAuth" /\ ~LastAnswer(authLog).ok
    /\ handlers = EmptyBag
    /\ error = AuthError /\ route = "login" /\ ~loading

\* The requests of handleDemo, in the order of the code.
DemoRequests == <<"signIn", "signUp", "signIn">>

\* C22: handleDemo first signs in with the demo credentials; only when that
\* sign-in fails does it send a sign-up and then a second sign-in, in that
\* order; when the first sign-in succeeds no sign-up is sent.
C22_DemoOrder ==
    (authLog # <<>> /\ authLog[1].by = "handleDemo") =>
        /\ Len(authLog) <= Len(DemoRequests)
        /\ \A i \in 1..Len(authLog) : authLog[i].request = DemoRequests[i]
        /\ Len(authLog) > 1 => ~authLog[1].ok
        /\ authLog[1].ok => handlers = EmptyBag
        /\ (Len(authLog) = 1 /\ ~authLog[1].ok) =>
              \A h \in BagToSet(handlers) : h.pc = "signUp"
        /\ Len(authLog) = 2 => \A h \in BagToSet(handlers) : h.pc = "signInAgain"
        /\ Len(authLog) = 3 => handlers = EmptyBag

\* handleDemo has gone through the sign-in, the sign-up and the second sign-in.
C22_Witness ==
    /\ Len(authLog) = 3 /\ authLog[1].by = "handleDemo"
    /\ handlers = EmptyBag

\* C29: the login page goes to the dashboard only after an authentication
\* request has succeeded: never when the last sign-in or sign-up of the
\* handler was answered with an error.
C29_PushOnlyAfterSuccess ==
    route = "dashboard" => (authLog # <<>> /\ LastAnswer(authLog).ok)

-----------------------------------------------------------------------------
(* The claims about the statistics, the streaks and the interleavings.       *)

\* The stored habits of user uid that are not archived.
ActiveHabits(uid) == {r \in habitRows : r.user_id = uid /\ ~r.is_archived}

\* C23: the Total Habits count shown after a fetch is the number of habits of
\* the user that are stored with is_archived = false when the fetch reads
\* them, and no archived habit is in the list the four statistics are
\* computed from.
C23_TotalIsActiveCount ==
    [][\A h \in BagToSet(handlers) :
          (h.kind = "fetchHabits" /\ Stepped(h)) =>
              /\ h.pc = "select" =>
                    \A g \in BagToSet(handlers') :
                        (/\ g.kind = "fetchHabits" /\ g.pc = "done" /\ g.error = NoError
                         /\ InFlight(g, handlers') > InFlight(g, handlers)) =>
                            /\ Len(g.data) = Cardinality(ActiveHabits(h.user))
                            /\ \A i \in 1..Len(g.data) :
                                  g.data[i].id \in {r.id : r \in ActiveHabits(h.user)}
              /\ (h.pc = "done" /\ h.error = NoError) =>
                    /\ stats'.totalHabits = Len(h.data)
                    /\ stats' = CalculateStats(h.data, now)]_vars

\* A habit of the user is archived, the fetch after it has settled, and the
\* count shown is the number of the habits that are not archived.
C23_Witness ==
    /\ \E r \in habitRows : r.user_id = Me /\ r.is_archived
    /\ handlers = EmptyBag /\ statsDone
    /\ session = Me
    /\ stats.totalHabits = Cardinality(ActiveHabits(Me))
    /\ Len(habits) = stats.totalHabits

\* C24: the global streak walks back at most 30 days. After calculateStats the
\* current streak is in 0..30, and it is exactly 30 when each of the 30 days
\* today..today-29 has a completed log of some habit, whatever the logs of
\* earlier days are.
C24_StreakWithinWindow ==
    statsDone =>
        /\ stats.currentStreak \in 0..StreakWindow
        /\ ((Today - StreakWindow + 1)..Today \subseteq ActiveDates(habits)
                => stats.currentStreak = StreakWindow)

\* The statistics of a history that has a completion on each of the 30 days
\* and on the day before them too.
C24_Witness ==
    /\ statsDone
    /\ (Today - StreakWindow)..Today \subseteq ActiveDates(habits)
    /\ stats.currentStreak = StreakWindow

\* The completed log of a habit of the signed-in user for today is stored.
CompletedStored(habitId) ==
    \E r \in logRows : /\ r.habit_id = habitId /\ r.user_id = session
                       /\ r.date = Today /\ r.completed

\* C25: once every outstanding request of the habit list has settled,
\* todayLogs[h] is true exactly when a completed habit_logs row for
\* (h, user, today) is stored.
C25_TodayLogsMatchStore ==
    (handlers = EmptyBag /\ session = Me) =>
        \A id \in 1..StoredHabits :
            IsCompletedToday(todayLogs, id) <=> CompletedStored(id)

\* C26: after the mutations of the finance dashboard and once all their
\* requests and refetches have settled, whatever the order of the responses,
\* the transactions list equals the stored rows of the user.
C26_ListIsFresh ==
    (handlers = EmptyBag /\ session = Me /\ clicks > 0) =>
        transactions \in SelectTransactions(Me)

\* C27: the streak of a habit never overcounts. Whatever the completed logs,
\* the hour and the UTC offset, the streak calculateStreaks computes is at most
\* the number of consecutive calendar days, ending today by the local date,
\* that have a completed log.
C27_StreakNeverOvercounts ==
    streaksDone => streaks[1] <= ConsecutiveDays(CompletedDates(1))

\* At most MaxToggles toggles, one after the other, in a run of the habit list.
MaxToggles == 3

\* The habit list on its own, for a user who stays signed in and a service
\* that answers every request: the page loads with today's completed log of
\* habit 1 stored or not, and the user clicks the checkbox while the requests
\* of the page are answered in any order.
InitToggle ==
    /\ now = Noon
    /\ habitRows = {[id |-> i, user_id |-> Me, name |-> "old", is_archived |-> FALSE] :
                        i \in 1..StoredHabits}
    /\ \E stored \in BOOLEAN :
          /\ logRows = IF stored
                       THEN {[id |-> 1, habit_id |-> 1, user_id |-> Me,
                              date |-> Today, completed |-> TRUE]}
                       ELSE {}
          /\ nextLogId = IF stored THEN 2 ELSE 1
    /\ session = Me
    /\ route = "dashboard"
    /\ habits = <<>>
    /\ loading = TRUE
    /\ todayLogs = <<>>
    /\ streaks = <<>>
    /\ streaksDone = FALSE
    /\ stats = InitialStats
    /\ statsDone = FALSE
    /\ toast = "none"
    /\ settled = {}
    /\ clicks = 0
    /\ handlers = SetToBag({HabitHandler("fetchHabits", "getUser", 0, <<>>)})
    /\ transactions = <<>> /\ totals = RenderTotals(<<>>) /\ totalsDone = TRUE
    /\ txRows = {} /\ nextTxId = 1
    /\ showAddForm = FALSE
    /\ IdleDialogs
    /\ IdleLogin

\* The user clicks the checkbox of a habit once the toggle before it has
\* settled, up to MaxToggles times.
ToggleInTurn(habitId) ==
    /\ clicks < MaxToggles
    /\ \A h \in BagToSet(handlers) : h.kind # "toggleHabit"
    /\ StartToggle(habitId)

NextToggle ==
    \/ \E id \in 1..StoredHabits : ToggleInTurn(id)
    \/ \E h \in BagToSet(handlers) : FetchGetUser(h)
    \/ \E h \in BagToSet(handlers) : FetchSelect(h)
    \/ \E h \in BagToSet(handlers) : FetchSettles(h)
    \/ \E h \in BagToSet(handlers) : TodayGetUser(h)
    \/ \E h \in BagToSet(handlers) : TodaySelect(h)
    \/ \E h \in BagToSet(handlers) : TodaySettles(h)
    \/ \E h \in BagToSet(handlers) : StreaksGetUser(h)
    \/ \E h \in BagToSet(handlers) : StreaksSelect(h)
    \/ \E h \in BagToSet(handlers) : StreaksSettles(h)
    \/ \E h \in BagToSet(handlers) : ToggleGetUser(h)
    \/ \E h \in BagToSet(handlers) : ToggleDelete(h)
    \/ \E h \in BagToSet(handlers) : ToggleInsert(h)
    \/ \E h \in BagToSet(handlers) : ToggleSettles(h)

SpecToggle == InitToggle /\ [][NextToggle]_vars

\* The rows of the key (habit, user, today) of toggle h among rows.
KeyRows(rows, h) ==
    {r \in rows : r.habit_id = h.habitId /\ r.user_id = h.user /\ r.date = h.today}

\* The write of toggle h was answered without an error in the step taken.
ToggleWritten(h) ==
    /\ h.kind = "toggleHabit" /\ h.pc \in {"insert", "delete"}
    /\ InFlight([h EXCEPT !.pc = "done"], handlers')
          > InFlight([h EXCEPT !.pc = "done"], handlers)

\* C28: the toggle is a round trip. A toggle of an unchecked habit that
\* succeeds inserts exactly one completed log for (habit, user, today), a
\* toggle of a checked habit that succeeds deletes the log that was stored, no
\* other row changes, and the toggle that settles without an error flips
\* todayLogs[habit]: so two toggles of one habit, each settled before the
\* next, bring the stored rows and todayLogs[habit] back to what they were.
C28_ToggleRoundTrip ==
    [][\A h \in BagToSet(handlers) :
          (Stepped(h) /\ h.kind = "toggleHabit") =>
              /\ ToggleWritten(h) =>
                    /\ (KeyRows(logRows, h) # {}) <=> h.isCompleted
                    /\ (KeyRows(logRows', h) # {}) <=> ~h.isCompleted
                    /\ Cardinality(KeyRows(logRows', h)) <= 1
                    /\ \A r \in KeyRows(logRows', h) : r.completed
                    /\ logRows' \ KeyRows(logRows', h) = logRows \ KeyRows(logRows, h)
              /\ (h.pc = "done" /\ h.error = NoError) =>
                    IsCompletedToday(todayLogs', h.habitId) = ~h.isCompleted]_vars

\* The loading flag of the dialog of a submit handler of the given kind.
LoadingOf(kind, create, edit) == IF kind = CreateSubmit THEN create ELSE edit

\* A handleSubmit of the given kind has sent its write in the step taken.
SendsWrite(kind) ==
    \E g \in BagToSet(handlers') :
        /\ g.kind = kind /\ g.pc \in {"insert", "update"}
        /\ InFlight(g, handlers') > InFlight(g, handlers)

\* C30: handleSubmit of the create and edit dialogs sends no write when
\* getUser returns no identity (create) or when the selected category is not
\* in the loaded list, and changes no row then; whatever way a handleSubmit
\* ends, the loading flag of its dialog is false after its last step; and the
\* fields of the create form are reset only by a handleSubmit whose insert
\* succeeded.
C30_SubmitGuardsAndCleanup ==
    [][/\ \A h \in BagToSet(handlers) :
             (Stepped(h) /\ h.kind \in {CreateSubmit, EditSubmit}) =>
                 /\ (h.pc = "getUser" /\ (session = NoUser \/ ~h.selectedCategory)) =>
                       /\ ~SendsWrite(h.kind)
                       /\ Ends(h)
                       /\ habitRows' = habitRows
                 /\ Ends(h) => ~LoadingOf(h.kind, createLoading', editLoading')
       /\ (editingHabit # 0 /\ ~editCategories) =>
             /\ ~SendsWrite(EditSubmit)
             /\ habitRows' = habitRows
             /\ ~editLoading'
       /\ \A g \in BagToSet(handlers') :
             (g.kind \in {CreateSubmit, EditSubmit} /\ g.pc \in {"insert", "update"}) =>
                 /\ g.selectedCategory
                 /\ g.kind = CreateSubmit => (g.identified /\ g.user # NoUser)
       /\ (formCategory /\ ~formCategory') =>
             \E h \in BagToSet(handlers) :
                 /\ Stepped(h) /\ h.kind = CreateSubmit
                 /\ WriteSucceeded(h)]_vars

\* A create form was submitted without an identity: the toast shows it, no
\* habit was added, the dialog is still open with its form filled in, and its
\* loading flag is false again.
C30_Witness ==
    /\ toast = "You must be logged in"
    /\ showCreateDialog /\ formCategory /\ ~createLoading
    /\ \A h \in BagToSet(handlers) : h.kind # CreateSubmit
    /\ \A r \in habitRows : r.name = "old"

====
